---------------------------- MODULE Spec2Model ----------------------------
(***************************************************************************)
(* Banking dashboard: the cleaning / validation pipelines.                 *)
(*                                                                         *)
(*   Spec     validateAndClean (banking-dashboard/src/utils/validation.ts) *)
(*            one step per forEach callback, the last step also sorts.     *)
(*   SpecRows the same, for the properties on parts of the input.          *)
(*   SpecLib  the edge-case and validation stages of cleanDataset          *)
(*            (src/lib/dataProcessing/validator.ts).                       *)
(*   SpecClean, SpecReconcile, SpecAnomalies                               *)
(*            one call of cleanRecord, reconcileCustomerBalances and       *)
(*            detectAnomalousTransactions of src/lib/dataProcessing.       *)
(*   SpecCalls  one call of cleanDataset, parseAmount (both variants),     *)
(*            segmentCustomers, analyzeBranchPerformance,                  *)
(*            calculateCustomerLTV or the dashboard's                      *)
(*            detectAnomalousTransactions.                                 *)
(*   SpecLoader  FileLoader: file selections and the parses they start.    *)
(*                                                                         *)
(* Money is held in cents.  Dates are held as day ordinals (an order and   *)
(* identity preserving image of Date.getTime()).                           *)
(***************************************************************************)
EXTENDS Integers, Sequences, FiniteSets, TLC

VARIABLES
    \* ---- validateAndClean ----
    inputLen,               \* rows.length
    rows,                   \* the rows visited so far by rows.forEach
    clean,                  \* const clean: CleanedTransaction[]
    errors,                 \* const errors: ValidationError[]
    seenTxn,                \* const seenTxn = new Set<string>()
    ageByCustomer,          \* const ageByCustomer = new Map<number, number>()
    lastBalanceByCustomer,  \* const lastBalanceByCustomer = new Map<number, number>()
    done,                   \* the function has returned { clean, errors }
    \* ---- cleanDataset stages ----
    stage,                  \* position inside cleanDataset
    cleaned,                \* records that survived cleanRecord
    agesCorrected,          \* handleInconsistentAges(...).corrected
    ageCorrections,         \* handleInconsistentAges(...).corrections
    deduplicated,           \* removeDuplicateTransactions(...).unique
    duplicates,             \* removeDuplicateTransactions(...).duplicates
    validationResult,       \* validateDataset(deduplicated)
    \* ---- single function calls ----
    call,                   \* "idle", "ready" (arguments bound) or "returned"
    raw,                    \* cleanRecord: its argument
    cleanedRecord,          \* cleanRecord: its return value
    transactions,           \* reconcileCustomerBalances: its argument
    reconciled,             \* reconcileCustomerBalances: its return value
    dataset,                \* detectAnomalousTransactions: its argument
    anomalies,              \* detectAnomalousTransactions: its return value
    callee,                 \* the function under call, for the other functions
    argument,               \* its argument
    returnValue,            \* its return value
    \* ---- FileLoader and App (banking-dashboard) ----
    loading,                \* FileLoader: useState(false)
    fileName,               \* FileLoader: useState<string>()
    handlers,               \* the handleFile calls so far, in the order of selection
    appData,                \* App: data
    appErrors               \* App: errors

dashVars == <<inputLen, rows, clean, errors, seenTxn, ageByCustomer,
              lastBalanceByCustomer, done>>
libVars  == <<stage, cleaned, agesCorrected, ageCorrections, deduplicated,
              duplicates, validationResult>>
fnVars   == <<callee, argument, returnValue>>
loaderVars == <<loading, fileName, handlers, appData, appErrors>>
callVars == <<call, raw, cleanedRecord, transactions, reconciled, dataset, anomalies, fnVars,
              loaderVars>>
vars     == <<dashVars, libVars, callVars>>

-----------------------------------------------------------------------------
(* Bounds *)
MaxRows == 3
MaxData == 3

-----------------------------------------------------------------------------
(* JavaScript values *)

\* Number(...) of a non-numeric string, parseAmount of an unparseable one
NaN == -9999
\* undefined / null of a numeric or date typed field
Undefined == -9998
\* a column that the row does not have
ABSENT == "<absent>"
\* undefined of a string typed field
UndefinedStr == "<undefined>"

IsFinite(x) == x # NaN /\ x # Undefined

\* a < b, a > b, a <= b: false as soon as one side is NaN
JsLt(a, b) == a # NaN /\ b # NaN /\ a < b
JsGt(a, b) == a # NaN /\ b # NaN /\ a > b
JsLe(a, b) == a # NaN /\ b # NaN /\ a <= b
\* a comparison that only notices a larger value
JsNeq_Greater(a, b) == a # NaN /\ b # NaN /\ a > b
\* a !== b on numbers: NaN differs from everything, itself included
JsNeq(a, b) == a = NaN \/ b = NaN \/ a # b

Abs(x) == IF x < 0 THEN -x ELSE x

\* a ?? b
Coalesce(a, b) == IF a # ABSENT THEN a ELSE b

-----------------------------------------------------------------------------
(* validation.ts constants, in cents / years *)
EPS == 1
MIN_AGE == 18
MAX_AGE == 120

(***************************************************************************)
(* Math.abs(a - b) > 0.01 in IEEE-754 doubles, for a = obs/100 and         *)
(* b = prev/100 + delta/100 (delta < 0 stands for prev - |delta|/100).     *)
(* Away from the boundary the rounding error (about 1e-17) cannot change   *)
(* the comparison.  When the decimal difference is exactly one cent the    *)
(* outcome is that of the double computation; RoundsAboveEps lists the     *)
(* triples <<prev, delta, obs>> with prev, obs in -3..10 and delta in      *)
(* {-3, 0, 3} for which the double difference is above the double 0.01     *)
(* (for instance 0.04 - 0.03 = 0.010000000000000002).                      *)
(***************************************************************************)
RoundsAboveEps ==
    { <<-2,3,2>>, <<-1,-3,-3>>, <<-1,3,3>>, <<0,3,4>>, <<1,-3,-3>>,
      <<1,3,3>>, <<1,3,5>>, <<2,-3,-2>>, <<2,3,4>>, <<3,0,4>>, <<3,3,7>>,
      <<4,-3,0>>, <<4,0,3>>, <<4,0,5>>, <<4,3,6>>, <<5,-3,1>>, <<5,0,4>>,
      <<6,-3,4>>, <<6,0,7>>, <<6,3,10>>, <<7,-3,3>>, <<7,0,6>>, <<7,3,9>>,
      <<8,-3,4>>, <<9,-3,7>>, <<9,0,10>>, <<10,-3,6>>, <<10,0,9>> }

AbsDiffExceeds(obs, prev, delta) ==
    LET d == Abs(obs - (prev + delta))
    IN  IF d = EPS THEN <<prev, delta, obs>> \in RoundsAboveEps
                   ELSE d > EPS

\* close(a, b) with b = prev + delta
close(a, prev, delta) ==
    IF ~IsFinite(a) \/ ~IsFinite(prev) \/ ~IsFinite(delta) THEN FALSE
    ELSE ~AbsDiffExceeds(a, prev, delta)


-----------------------------------------------------------------------------
(* Raw CSV rows (types.ts RawCsvRow) and the field parsers on the literals  *)
(* the modelled files contain.                                             *)

\* Number(s) for the customer-id and age columns
NumberOf(s) ==
    CASE s = ABSENT -> NaN
      [] s = ""    -> 0
      [] s = "1"   -> 1
      [] s = "2"   -> 2
      [] s = "17"  -> 17
      [] s = "30"  -> 30
      [] s = "31"  -> 31
      [] s = "121" -> 121
      [] s = "abc" -> NaN

\* parseAmount: cents, or NaN for null / empty / placeholder / no digits
parseAmount(s) ==
    CASE s = ABSENT  -> NaN
      [] s = ""      -> NaN
      [] s = "N/A"   -> NaN
      [] s = "0.00"  -> 0
      [] s = "0.03"  -> 3
      [] s = "$0.03" -> 3
      [] s = "-0.03" -> -3
      [] s = "0.04"  -> 4
      [] s = "0.07"  -> 7
      [] s = "0.08"  -> 8

\* parseDate: the day ordinal, or null
parseDate(s) ==
    CASE s = ABSENT       -> Undefined
      [] s = ""           -> Undefined
      [] s = "2024-01-01" -> 1
      [] s = "01/02/2024" -> 2
      [] s = "2024-01-02" -> 2

normalizeTransactionType(t) ==
    IF t = ABSENT \/ t = "" THEN "Other"
    ELSE IF t \in {"Deposit", "dep"} THEN "Deposit"
    ELSE IF t \in {"Withdrawal", "wd"} THEN "Withdrawal"
    ELSE IF t \in {"Transfer", "xfer"} THEN "Transfer"
    ELSE IF t \in {"Payment", "card payment"} THEN "Payment"
    ELSE IF t \in {"Fee", "charges"} THEN "Fee"
    ELSE "Other"

\* (x ?? '').toString() || undefined
StrOrUndefined(s) == IF s = ABSENT \/ s = "" THEN UndefinedStr ELSE s

rowToCleaned(row) ==
    LET customerId == NumberOf(Coalesce(row.CustomerId, row.CustomerID))
        transactionDate == parseDate(Coalesce(row.TransactionDate, row.LastTransactionDate))
        transactionType == normalizeTransactionType(row.TransactionType)
        transactionAmount == parseAmount(row.TransactionAmount)
        accountBalanceAfter == parseAmount(Coalesce(row.BalanceAfter, row.AccountBalance))
        age == IF row.Age # ABSENT /\ row.Age # "" THEN NumberOf(row.Age) ELSE Undefined
        transactionId == StrOrUndefined(Coalesce(row.TransactionID, Coalesce(row.TransactionId, row.TxnID)))
    IN  IF ~IsFinite(customerId) \/ transactionDate = Undefined \/ ~IsFinite(transactionAmount)
        THEN [ok |-> FALSE]
        ELSE [ok |-> TRUE,
              customerId |-> customerId,
              age |-> age,
              branchId |-> StrOrUndefined(Coalesce(row.BranchID, row.BranchCode)),
              transactionId |-> transactionId,
              transactionDate |-> transactionDate,
              transactionType |-> transactionType,
              transactionAmount |-> transactionAmount,
              accountBalanceAfter |-> IF IsFinite(accountBalanceAfter) THEN accountBalanceAfter ELSE Undefined,
              raw |-> row]

\* a composite key that leaves the branch out
stableKey_NoBranch(ct) ==
    IF ct.transactionId # UndefinedStr
    THEN <<"id", ct.transactionId>>
    ELSE <<"k", ct.customerId, ct.transactionDate, ct.transactionType,
           ct.transactionAmount>>

\* the deduplication key of validateAndClean
stableKey(ct) ==
    IF ct.transactionId # UndefinedStr
    THEN <<"id", ct.transactionId>>
    ELSE <<"k", ct.customerId, ct.transactionDate, ct.transactionType,
           ct.transactionAmount,
           IF ct.branchId = UndefinedStr THEN "" ELSE ct.branchId>>

\* the signed effect on the running balance that the reconciliation expects;
\* for a Transfer expected = observed
ExpectedDelta(ct) ==
    IF ct.transactionType = "Deposit" THEN ct.transactionAmount
    ELSE IF ct.transactionType \in {"Withdrawal", "Payment", "Fee"} THEN -ct.transactionAmount
    ELSE 0

BalanceMismatch(ct, prev) ==
    IF ct.transactionType = "Transfer" THEN ~close(ct.accountBalanceAfter, ct.accountBalanceAfter, 0)
    ELSE ~close(ct.accountBalanceAfter, prev, ExpectedDelta(ct))

\* a chain that continues from the expected balance after a mismatch
ChainAfterMismatch_Expected(ct, prev) == prev + ExpectedDelta(ct)

\* lastBalanceByCustomer.set(...) after a mismatch
ChainAfterMismatch(ct, prev) == ct.accountBalanceAfter

\* an error entry that numbers the rows from one
Err_OneBased(idx, reason, detail) == [rowIndex |-> idx + 1, reason |-> reason, detail |-> detail]

\* an entry of errors: rowIndex is the forEach index of the row
Err(idx, reason, detail) == [rowIndex |-> idx, reason |-> reason, detail |-> detail]

\* a map update that writes the value under every key
MapSet_AllKeys(m, k, v) == [x \in DOMAIN m \cup {k} |-> v]

\* map.set(k, v)
MapSet(m, k, v) == [x \in DOMAIN m \cup {k} |-> IF x = k THEN v ELSE m[x]]

(***************************************************************************)
(* One forEach callback, in the order of its early returns: st is the     *)
(* loop state [clean, errors, seenTxn, ageByCustomer,                      *)
(* lastBalanceByCustomer], row the row visited and idx its zero-based      *)
(* index.  ProcessRow is the whole callback.                               *)
(***************************************************************************)
\* the balance reconciliation and the push to clean, for a record that passed
\* the age rules
ReconcileAndPush(st, ct, idx) ==
    IF ct.transactionType = "Deposit" /\ ct.transactionAmount <= 0
    THEN [st EXCEPT !.errors = Append(@, Err(idx, "Deposit amount must be positive", <<>>))]
    ELSE
    LET hasBal  == ct.accountBalanceAfter # Undefined
        hasPrev == ct.customerId \in DOMAIN st.lastBalanceByCustomer
        prev    == IF hasPrev THEN st.lastBalanceByCustomer[ct.customerId] ELSE Undefined
        bad     == hasBal /\ hasPrev /\ BalanceMismatch(ct, prev)
    IN  [st EXCEPT
           !.errors = IF bad
                      THEN Append(@, Err(idx, "Balance mismatch",
                                         <<IF ct.transactionType = "Transfer"
                                           THEN ct.accountBalanceAfter
                                           ELSE prev + ExpectedDelta(ct),
                                           prev, ct.accountBalanceAfter>>))
                      ELSE @,
           !.lastBalanceByCustomer =
                IF ~hasBal THEN @
                ELSE IF bad THEN MapSet(@, ct.customerId, ChainAfterMismatch(ct, prev))
                ELSE MapSet(@, ct.customerId, ct.accountBalanceAfter),
           !.clean = Append(@, ct)]

\* the age rules, for a record that is not a duplicate
CheckAge(st, ct0, idx) ==
    IF ct0.age # Undefined /\ (JsLt(ct0.age, MIN_AGE) \/ JsGt(ct0.age, MAX_AGE))
    THEN [st EXCEPT !.errors = Append(@, Err(idx, "Age out of range", <<>>))]
    ELSE
    LET hasAge  == ct0.age # Undefined
        known   == ct0.customerId \in DOMAIN st.ageByCustomer
        baseAge == IF known THEN st.ageByCustomer[ct0.customerId] ELSE Undefined
        incons  == hasAge /\ known /\ JsNeq(ct0.age, baseAge)
    IN  ReconcileAndPush(
            [st EXCEPT
               !.ageByCustomer = IF hasAge /\ ~known
                                 THEN MapSet(@, ct0.customerId, ct0.age) ELSE @,
               !.errors = IF incons
                          THEN Append(@, Err(idx, "Age inconsistency", <<ct0.age, baseAge>>))
                          ELSE @],
            IF incons THEN [ct0 EXCEPT !.age = Undefined] ELSE ct0,
            idx)

\* the rules applied to the outcome ct0 of rowToCleaned
ProcessCleaned(st, ct0, idx) ==
    IF ~ct0.ok
    THEN [st EXCEPT !.errors = Append(@, Err(idx, "Missing required fields", <<>>))]
    ELSE
    LET key == stableKey(ct0) IN
    IF key \in st.seenTxn
    THEN [st EXCEPT !.errors = Append(@, Err(idx, "Duplicate transaction", <<>>))]
    ELSE CheckAge([st EXCEPT !.seenTxn = @ \cup {key}], ct0, idx)

ProcessRow(st, row, idx) == ProcessCleaned(st, rowToCleaned(row), idx)

\* a comparator that looks at the customer only
SortsBefore_CustomerOnly(a, b) == a.customerId < b.customerId

\* the comparator of clean.sort: a sorts before b
SortsBefore(a, b) ==
    \/ a.customerId < b.customerId
    \/ a.customerId = b.customerId /\ a.transactionDate < b.transactionDate

\* Array.prototype.sort is stable: x goes behind everything that does not
\* sort after it
RECURSIVE InsertSorted(_, _)
InsertSorted(s, x) ==
    IF s = <<>> THEN <<x>>
    ELSE IF SortsBefore(x, Head(s)) THEN <<x>> \o s
    ELSE <<Head(s)>> \o InsertSorted(Tail(s), x)

RECURSIVE SortClean(_)
SortClean(s) ==
    IF s = <<>> THEN <<>>
    ELSE InsertSorted(SortClean(SubSeq(s, 1, Len(s) - 1)), s[Len(s)])

EmptyMap == [x \in {} |-> 0]

LoopState == [clean |-> clean, errors |-> errors, seenTxn |-> seenTxn,
              ageByCustomer |-> ageByCustomer,
              lastBalanceByCustomer |-> lastBalanceByCustomer]

-----------------------------------------------------------------------------
(* The rows a modelled file can hold *)

Row(cid, date, type, amount, balance, age, tid, branch) ==
    [CustomerId |-> cid, CustomerID |-> ABSENT,
     TransactionDate |-> date, LastTransactionDate |-> ABSENT,
     TransactionType |-> type, TransactionAmount |-> amount,
     BalanceAfter |-> balance, AccountBalance |-> ABSENT,
     Age |-> age,
     TransactionID |-> tid, TransactionId |-> ABSENT, TxnID |-> ABSENT,
     BranchID |-> branch, BranchCode |-> ABSENT]

D1 == "2024-01-01"
D2 == "2024-01-02"

\* customer 1, balance snapshots, no age
ChainRows ==
    { Row("1", D1, "Deposit",    "0.03", "0.03", ABSENT, ABSENT, ABSENT),
      Row("1", D1, "Deposit",    "0.03", "0.04", ABSENT, ABSENT, ABSENT),
      Row("1", D2, "Deposit",    "0.03", "0.07", ABSENT, ABSENT, ABSENT),
      Row("1", D2, "Deposit",    "0.03", "0.08", "",     ABSENT, "B1"),
      Row("1", D1, "Withdrawal", "0.03", "0.00", ABSENT, ABSENT, ABSENT),
      Row("1", D2, "Withdrawal", "0.03", "0.04", ABSENT, ABSENT, ABSENT),
      Row("1", D1, "Payment",    "0.03", "0.00", ABSENT, ABSENT, ABSENT),
      Row("1", D1, "Fee",        "0.03", "0.04", ABSENT, ABSENT, ABSENT),
      Row("1", D1, "Transfer",   "0.03", "0.07", ABSENT, ABSENT, ABSENT),
      Row("1", D2, "wd",         "$0.03", "N/A", ABSENT, ABSENT, ABSENT) }

\* customer 1, ages, no balance
AgeRows ==
    { Row("1", D1, "Withdrawal", "0.03", "", "30",  ABSENT, "B1"),
      Row("1", D2, "Withdrawal", "0.03", "", "31",  ABSENT, "B1"),
      Row("1", D1, "Withdrawal", "0.03", "", "17",  ABSENT, "B2"),
      Row("1", D1, "Transfer",   "0.03", "", "abc", ABSENT, "B1") }

\* non-positive deposits, negative amounts
AmountRows ==
    { Row("1", D1, "Withdrawal", "-0.03", "",     ABSENT, ABSENT, ABSENT),
      Row("1", D1, "Deposit",    "-0.03", "",     ABSENT, ABSENT, ABSENT),
      Row("1", D1, "Deposit",    "-0.03", "0.04", "17",   ABSENT, ABSENT),
      Row("1", D2, "Deposit",    "0.00",  "0.03", "30",   ABSENT, ABSENT) }

\* customer 2, one row through the alias columns
OtherCustomerRows ==
    { Row("2", D1, "Deposit",    "0.03", "0.03", "30",   ABSENT, ABSENT),
      [Row(ABSENT, ABSENT, "Deposit", "0.03", ABSENT, "31", ABSENT, ABSENT)
         EXCEPT !.CustomerID = "2", !.LastTransactionDate = "01/02/2024",
                !.AccountBalance = "0.07", !.TxnID = "T2", !.BranchCode = "B2"] }

\* rows that rowToCleaned rejects
UncleanRows ==
    { Row("abc", D1, "Deposit", "0.03", "0.03", ABSENT, ABSENT, ABSENT),
      Row("1",   "", "Deposit", "0.03", "0.03", ABSENT, ABSENT, ABSENT) }

\* a customer-id column that is present but empty
EmptyIdRows ==
    { Row("", D1, "Withdrawal", "0.03", "0.03", ABSENT, ABSENT, ABSENT) }

\* customer 1 with the transaction id that a row of customer 2 carries
SharedIdRows ==
    { Row("1", D1, "Withdrawal", "0.03", "", ABSENT, "T2", ABSENT) }

RowSet == ChainRows \cup AgeRows \cup AmountRows \cup OtherCustomerRows
            \cup UncleanRows \cup EmptyIdRows \cup SharedIdRows

-----------------------------------------------------------------------------
(* cleanDataset is idle while validateAndClean is explored *)
LibIdle ==
    /\ stage = "idle"
    /\ cleaned = <<>>
    /\ agesCorrected = <<>>
    /\ ageCorrections = <<>>
    /\ deduplicated = <<>>
    /\ duplicates = <<>>
    /\ validationResult = [valid |-> <<>>, invalid |-> <<>>]

(* the file loader has not been used *)
LoaderIdle ==
    /\ loading = FALSE
    /\ fileName = UndefinedStr
    /\ handlers = <<>>
    /\ appData = <<>>
    /\ appErrors = <<>>

(* none of the other functions is under call *)
FnIdle ==
    /\ callee = "none"
    /\ argument = <<>>
    /\ returnValue = <<>>

(* no single function call is in progress *)
CallIdle ==
    /\ FnIdle
    /\ LoaderIdle
    /\ call = "idle"
    /\ raw = <<>>
    /\ cleanedRecord = <<>>
    /\ transactions = <<>>
    /\ reconciled = <<>>
    /\ dataset = <<>>
    /\ anomalies = <<>>

(* validateAndClean(rows) *)
Init ==
    /\ inputLen \in 0..MaxRows
    /\ rows = <<>>
    /\ clean = <<>>
    /\ errors = <<>>
    /\ seenTxn = {}
    /\ ageByCustomer = EmptyMap
    /\ lastBalanceByCustomer = EmptyMap
    /\ done = (inputLen = 0)
    /\ LibIdle
    /\ CallIdle

\* the callback of rows.forEach on the next row; after the last row the
\* function sorts clean and returns
ForEachRow(row) ==
    /\ ~done
    /\ Len(rows) < inputLen
    /\ LET st == ProcessRow(LoopState, row, Len(rows))
           last == Len(rows) + 1 = inputLen
       IN  /\ rows' = Append(rows, row)
           /\ clean' = IF last THEN SortClean(st.clean) ELSE st.clean
           /\ errors' = st.errors
           /\ seenTxn' = st.seenTxn
           /\ ageByCustomer' = st.ageByCustomer
           /\ lastBalanceByCustomer' = st.lastBalanceByCustomer
           /\ done' = last
    /\ UNCHANGED <<inputLen, libVars, callVars>>

Next == \E row \in RowSet : ForEachRow(row)

Spec == Init /\ [][Next]_vars

-----------------------------------------------------------------------------
(* Vocabulary of the validateAndClean claims *)

DroppingReasons == {"Missing required fields", "Duplicate transaction",
                    "Age out of range", "Deposit amount must be positive"}

\* errors holds an entry with this reason for the row at 1-based position i
HasError(i, reason) ==
    \E k \in 1..Len(errors) : errors[k].rowIndex = i - 1 /\ errors[k].reason = reason

\* the row at position i was pushed to clean
Retained(i) == \A r \in DroppingReasons : ~HasError(i, r)

\* the records built from the rows of RowSet
CleanedOf == [row \in RowSet |-> rowToCleaned(row)]

\* the record built from the row at position i
CleanedAt(i) == CleanedOf[rows[i]]

\* retained rows of one customer that carry a balance snapshot
SnapshotRow(i) ==
    /\ Retained(i)
    /\ CleanedAt(i).accountBalanceAfter # Undefined

\* the closest earlier snapshot row of the same customer, 0 when there is none
PrevSnapshot(i) ==
    LET S == {k \in 1..(i - 1) :
                SnapshotRow(k) /\ CleanedAt(k).customerId = CleanedAt(i).customerId}
    IN  IF S = {} THEN 0 ELSE CHOOSE k \in S : \A m \in S : m <= k

\* the exact decimal distance between observed and expected balance
DecimalDiff(ct, prev) ==
    IF ct.transactionType = "Transfer" THEN 0
    ELSE Abs(ct.accountBalanceAfter - (prev + ExpectedDelta(ct)))

Customers == {1, 2}

-----------------------------------------------------------------------------
\* C1: every record in the clean output of validateAndClean has an age that
\* is absent or within [18,120], and a transactionAmount >= 0.
C1_CleanAgeInRangeAmountNonNegative ==
    done =>
        \A j \in 1..Len(clean) :
            /\ \/ clean[j].age = Undefined
               \/ clean[j].age # NaN /\ clean[j].age >= MIN_AGE /\ clean[j].age <= MAX_AGE
            /\ clean[j].transactionAmount >= 0

\* C3: every input row that cleans to a Deposit with transactionAmount <= 0
\* is left out of clean and has an error entry with the reason
\* "Deposit amount must be positive", whatever its other fields are and
\* whatever rows precede it.
C3_NonPositiveDepositAlwaysReported ==
    \A i \in 1..Len(rows) :
        LET ct == CleanedAt(i) IN
        (ct.ok /\ ct.transactionType = "Deposit" /\ ct.transactionAmount <= 0)
        => /\ \A j \in 1..Len(clean) : clean[j].raw # rows[i]
           /\ HasError(i, "Deposit amount must be positive")

\* C4: for a retained row with a balance snapshot whose customer already has
\* a running balance prev, a "Balance mismatch" error is emitted if and only
\* if |observed - expected| > 0.01 (expected = prev + amount for Deposit,
\* prev - amount for Withdrawal, Payment and Fee, observed for Transfer); a
\* difference of exactly 0.01 or less passes.
C4_MismatchIffBeyondTolerance ==
    \A i \in 1..Len(rows) :
        (SnapshotRow(i) /\ PrevSnapshot(i) # 0
           /\ CleanedAt(i).transactionType \in
                 {"Deposit", "Withdrawal", "Payment", "Fee", "Transfer"})
        => LET prev == CleanedAt(PrevSnapshot(i)).accountBalanceAfter
           IN  HasError(i, "Balance mismatch") <=> DecimalDiff(CleanedAt(i), prev) > EPS

\* C6: whenever a customer's rows, taken in ascending transactionDate
\* order, form a chain that reconciles, no "Balance mismatch" error is
\* emitted for that customer, whatever the order of the rows in the input.
C6_ChainCheckedInDateOrder ==
    done =>
        \A c \in Customers :
            LET mine  == {i \in 1..Len(rows) : CleanedAt(i).ok /\ CleanedAt(i).customerId = c}
                chain == SelectSeq(clean, LAMBDA ct : ct.customerId = c)
            IN  (/\ \A i \in mine : SnapshotRow(i)
                 /\ \A k \in 2..Len(chain) :
                        ~BalanceMismatch(chain[k], chain[k - 1].accountBalanceAfter))
                => \A i \in mine : ~HasError(i, "Balance mismatch")

-----------------------------------------------------------------------------
(***************************************************************************)
(* src/lib/dataProcessing/validator.ts                                     *)
(***************************************************************************)

LibErr(index, fld, value, reason, severity) ==
    [recordIndex |-> index, field |-> fld, value |-> value,
     reason |-> reason, severity |-> severity]

\* the signed change calculateExpectedBalance applies to balanceBefore
calculateExpectedDelta(transactionType, amount) ==
    CASE transactionType = "Deposit"    -> amount
      [] transactionType = "Withdrawal" -> -amount
      [] transactionType = "Transfer"   -> -amount
      [] OTHER                          -> 0

calculateExpectedBalance(balanceBefore, transactionType, amount) ==
    balanceBefore + calculateExpectedDelta(transactionType, amount)

\* only non-empty error lists count as a failure
KeepsRecord(errs) == Len(errs) = 0

validateTransaction(t, index) ==
    LET rule1 == IF t.transactionType = "Deposit" /\ t.transactionAmount <= 0
                 THEN <<LibErr(index, "transactionAmount", t.transactionAmount,
                               "Deposit amount must be positive", "error")>>
                 ELSE <<>>
        rule2 == IF AbsDiffExceeds(t.accountBalanceAfterTransaction, t.accountBalance,
                                   calculateExpectedDelta(t.transactionType, t.transactionAmount))
                 THEN <<LibErr(index, "accountBalanceAfterTransaction",
                               t.accountBalanceAfterTransaction,
                               "Account balance doesn't reconcile", "error")>>
                 ELSE <<>>
        rule3 == IF t.age < MIN_AGE \/ t.age > MAX_AGE
                 THEN <<LibErr(index, "age", t.age, "Age is outside valid range (18-120)", "error")>>
                 ELSE <<>>
        rule4 == IF t.customerId <= 0
                 THEN <<LibErr(index, "customerId", t.customerId,
                               "Customer ID must be a positive number", "error")>>
                 ELSE <<>>
        rule5 == IF t.transactionId <= 0
                 THEN <<LibErr(index, "transactionId", t.transactionId,
                               "Transaction ID must be a positive number", "error")>>
                 ELSE <<>>
        rule6 == IF t.transactionDate = Undefined
                 THEN <<LibErr(index, "transactionDate", t.transactionDate,
                               "Invalid transaction date", "error")>>
                 ELSE <<>>
        rule7 == IF t.transactionAmount < 0
                 THEN <<LibErr(index, "transactionAmount", t.transactionAmount,
                               "Transaction amount cannot be negative", "error")>>
                 ELSE <<>>
        rule8 == IF t.accountBalanceAfterTransaction < 0
                 THEN <<LibErr(index, "accountBalanceAfterTransaction",
                               t.accountBalanceAfterTransaction,
                               "Account balance cannot be negative after transaction",
                               "warning")>>
                 ELSE <<>>
    IN  rule1 \o rule2 \o rule3 \o rule4 \o rule5 \o rule6 \o rule7 \o rule8

\* a tally that counts each reason once
RECURSIVE CountByReason_Once(_, _)
CountByReason_Once(errs, counts) ==
    IF errs = <<>> THEN counts
    ELSE CountByReason_Once(Tail(errs), MapSet(counts, Head(errs).reason, 1))

\* errorsByType[error.reason] = (errorsByType[error.reason] || 0) + 1
RECURSIVE CountByReason(_, _)
CountByReason(errs, counts) ==
    IF errs = <<>> THEN counts
    ELSE LET r == Head(errs).reason
             n == IF r \in DOMAIN counts THEN counts[r] ELSE 0
         IN  CountByReason(Tail(errs), MapSet(counts, r, n + 1))

RECURSIVE ValidateFrom(_, _, _)
ValidateFrom(data, i, acc) ==
    IF i > Len(data) THEN acc
    ELSE LET errs == validateTransaction(data[i], i - 1)
         IN  ValidateFrom(data, i + 1,
                 IF KeepsRecord(errs)
                 THEN [acc EXCEPT !.valid = Append(@, data[i])]
                 ELSE [acc EXCEPT !.invalid = @ \o errs,
                                  !.errorsByType = CountByReason(errs, @)])

validateDataset(data) ==
    LET acc == ValidateFrom(data, 1, [valid |-> <<>>, invalid |-> <<>>,
                                      errorsByType |-> [x \in {} |-> 0]])
    IN  [valid |-> acc.valid,
         invalid |-> acc.invalid,
         summary |-> [totalRecords |-> Len(data),
                      validRecords |-> Len(acc.valid),
                      invalidRecords |-> Len(data) - Len(acc.valid),
                      errorsByType |-> acc.errorsByType]]

\* the distinct values of s in first-encounter order (Map / Set insertion order)
RECURSIVE Distinct(_)
Distinct(s) ==
    IF s = <<>> THEN <<>>
    ELSE LET d == Distinct(SubSeq(s, 1, Len(s) - 1))
             x == s[Len(s)]
         IN  IF \E k \in 1..Len(d) : d[k] = x THEN d ELSE Append(d, x)

Count(s, v) == Cardinality({i \in 1..Len(s) : s[i] = v})

\* a later candidate replaces the mode found so far
FreqBeats_OrEqual(freq, maxFreq) == freq >= maxFreq

FreqBeats(freq, maxFreq) == freq > maxFreq

RECURSIVE ModeScan(_, _, _, _)
ModeScan(keys, numbers, maxFreq, mode) ==
    IF keys = <<>> THEN mode
    ELSE LET num  == Head(keys)
             freq == Count(numbers, num)
         IN  IF FreqBeats(freq, maxFreq)
             THEN ModeScan(Tail(keys), numbers, freq, num)
             ELSE ModeScan(Tail(keys), numbers, maxFreq, mode)

calculateMode(numbers) == ModeScan(Distinct(numbers), numbers, 0, numbers[1])

\* the ages of one customer in data order
AgesOf(data, customerId) ==
    LET mine == SelectSeq(data, LAMBDA t : t.customerId = customerId)
    IN  [k \in 1..Len(mine) |-> mine[k].age]

CustomerOrder(data) == Distinct([k \in 1..Len(data) |-> data[k].customerId])

handleInconsistentAges(data) ==
    LET order == CustomerOrder(data)
        inconsistent(c) == Len(Distinct(AgesOf(data, c))) > 1
        hit == SelectSeq(order, inconsistent)
    IN  [corrected |->
            [k \in 1..Len(data) |->
                IF inconsistent(data[k].customerId)
                THEN [data[k] EXCEPT !.age = calculateMode(AgesOf(data, data[k].customerId))]
                ELSE data[k]],
         corrections |->
            [k \in 1..Len(hit) |->
                [customerId |-> hit[k],
                 ages |-> Distinct(AgesOf(data, hit[k])),
                 correctedTo |-> calculateMode(AgesOf(data, hit[k]))]]]

\* a key that leaves the transaction type out
dedupKey_NoType(t) == <<t.customerId, t.transactionDate, t.transactionAmount>>

\* `${customerId}-${transactionDate.getTime()}-${transactionAmount}-${transactionType}`
dedupKey(t) == <<t.customerId, t.transactionDate, t.transactionAmount, t.transactionType>>

\* the else is missing: a duplicate is pushed to both lists
DedupStep_NoElse(acc, t) ==
    IF dedupKey(t) \in acc.seen
    THEN [acc EXCEPT !.duplicates = Append(@, t), !.unique = Append(@, t)]
    ELSE [acc EXCEPT !.seen = @ \cup {dedupKey(t)}, !.unique = Append(@, t)]

\* the data.forEach callback of removeDuplicateTransactions
DedupStep(acc, t) ==
    IF dedupKey(t) \in acc.seen
    THEN [acc EXCEPT !.duplicates = Append(@, t)]
    ELSE [acc EXCEPT !.seen = @ \cup {dedupKey(t)}, !.unique = Append(@, t)]

RECURSIVE DedupFrom(_, _, _)
DedupFrom(data, i, acc) ==
    IF i > Len(data) THEN acc
    ELSE DedupFrom(data, i + 1, DedupStep(acc, data[i]))

removeDuplicateTransactions(data) ==
    LET acc == DedupFrom(data, 1, [seen |-> {}, unique |-> <<>>, duplicates |-> <<>>])
    IN  [unique |-> acc.unique, duplicates |-> acc.duplicates]

-----------------------------------------------------------------------------
(* Records cleanRecord can produce *)

Rec(cid, tid, date, type, amount, before, after, age, branch) ==
    [customerId |-> cid, transactionId |-> tid, transactionDate |-> date,
     transactionType |-> type, transactionAmount |-> amount,
     accountBalance |-> before, accountBalanceAfterTransaction |-> after,
     age |-> age, branchId |-> branch]

RecSet ==
    { Rec(1, 1, 1, "Deposit",    3,  0,  3, 30, "B1"),
      Rec(1, 2, 1, "Deposit",    3,  0,  3, 31, "B2"),
      Rec(1, 3, 2, "Withdrawal", 3,  3,  0, 30, "B1"),
      Rec(1, 4, 2, "Withdrawal", 3,  0, -3, 31, "B1"),
      Rec(1, 5, 1, "Transfer",   3,  3,  7, 30, "B1"),
      Rec(2, 6, 1, "Deposit",    0,  3,  3, 17, "B1"),
      Rec(2, 7, 2, "Withdrawal", -3, 3,  0, 40, "B2"),
      Rec(2, 8, 1, "Deposit",    3,  0,  4, 30, "B1"),
      Rec(2, 9, 2, "Transfer",   3,  3,  0, 31, "B1") }

RECURSIVE SeqsUpTo(_, _)
SeqsUpTo(S, n) ==
    IF n = 0 THEN {<<>>}
    ELSE LET shorter == SeqsUpTo(S, n - 1)
         IN  shorter \cup {Append(s, x) : s \in {q \in shorter : Len(q) = n - 1}, x \in S}

\* validateAndClean is idle while cleanDataset is explored
DashIdle ==
    /\ inputLen = 0
    /\ rows = <<>>
    /\ clean = <<>>
    /\ errors = <<>>
    /\ seenTxn = {}
    /\ ageByCustomer = EmptyMap
    /\ lastBalanceByCustomer = EmptyMap
    /\ done = FALSE

InitLib ==
    /\ stage = "cleaned"
    /\ cleaned \in SeqsUpTo(RecSet, MaxData)
    /\ agesCorrected = <<>>
    /\ ageCorrections = <<>>
    /\ deduplicated = <<>>
    /\ duplicates = <<>>
    /\ validationResult = [valid |-> <<>>, invalid |-> <<>>]
    /\ DashIdle
    /\ CallIdle

\* Step 2 of cleanDataset: handleInconsistentAges(cleaned)
HandleInconsistentAges ==
    /\ stage = "cleaned"
    /\ LET r == handleInconsistentAges(cleaned)
       IN  /\ agesCorrected' = r.corrected
           /\ ageCorrections' = r.corrections
    /\ stage' = "agesCorrected"
    /\ UNCHANGED <<cleaned, deduplicated, duplicates, validationResult, dashVars, callVars>>

\* Step 2 of cleanDataset: removeDuplicateTransactions(agesCorrected)
RemoveDuplicateTransactions ==
    /\ stage = "agesCorrected"
    /\ LET r == removeDuplicateTransactions(agesCorrected)
       IN  /\ deduplicated' = r.unique
           /\ duplicates' = r.duplicates
    /\ stage' = "deduplicated"
    /\ UNCHANGED <<cleaned, agesCorrected, ageCorrections, validationResult, dashVars, callVars>>

\* Step 3 of cleanDataset: validateDataset(deduplicated)
ValidateDataset ==
    /\ stage = "deduplicated"
    /\ validationResult' = validateDataset(deduplicated)
    /\ stage' = "validated"
    /\ UNCHANGED <<cleaned, agesCorrected, ageCorrections, deduplicated, duplicates, dashVars, callVars>>

NextLib ==
    \/ HandleInconsistentAges
    \/ RemoveDuplicateTransactions
    \/ ValidateDataset

SpecLib == InitLib /\ [][NextLib]_vars

-----------------------------------------------------------------------------
(* Vocabulary of the cleanDataset claims *)

AgesDone  == stage \in {"agesCorrected", "deduplicated", "validated"}
DedupDone == stage \in {"deduplicated", "validated"}

\* the elements of data at the positions in I, in ascending position order
RECURSIVE Pick(_, _)
Pick(data, I) ==
    IF I = {} THEN <<>>
    ELSE LET last == CHOOSE i \in I : \A j \in I : j <= i
         IN  Append(Pick(data, I \ {last}), data[last])

PositionsOf(data, c) == {j \in 1..Len(data) : data[j].customerId = c}
AgeSetOf(data, c) == {data[j].age : j \in PositionsOf(data, c)}

\* the most frequent age of customer c; among equally frequent ages the one
\* whose first occurrence comes first
ExpectedMode(data, c) ==
    LET P == PositionsOf(data, c)
        cnt(a) == Cardinality({j \in P : data[j].age = a})
        first(a) == CHOOSE j \in P : data[j].age = a /\ \A m \in P : data[m].age = a => j <= m
    IN  CHOOSE a \in AgeSetOf(data, c) :
            \A b \in AgeSetOf(data, c) :
                \/ cnt(a) > cnt(b)
                \/ cnt(a) = cnt(b) /\ first(a) <= first(b)

\* same customer, date, amount and type
SameIdentity(a, b) ==
    /\ a.customerId = b.customerId
    /\ a.transactionDate = b.transactionDate
    /\ a.transactionAmount = b.transactionAmount
    /\ a.transactionType = b.transactionType

RetainedKinds == {"Account balance cannot be negative after transaction",
                  "Account balance doesn't reconcile"}

-----------------------------------------------------------------------------
\* C2: validateDataset keeps in valid every record whose only violations are
\* of the retained kinds (negative post-transaction balance, a warning, and
\* balance that does not reconcile); only the other error rules remove a
\* record from valid.
C2_RetainedKindsStayValid ==
    stage = "validated" =>
        \A i \in 1..Len(deduplicated) :
            LET errs == validateTransaction(deduplicated[i], i - 1)
                kept == \E j \in 1..Len(validationResult.valid) :
                            validationResult.valid[j] = deduplicated[i]
            IN  kept <=> \A k \in 1..Len(errs) : errs[k].reason \in RetainedKinds

\* C7: after handleInconsistentAges every record of a customer with more than
\* one distinct age carries the customer's most frequent age, ties going to
\* the tied age met first; other customers' records and all other fields are
\* unchanged, in the same order, with one correction entry per corrected
\* customer.
C7_AgesCorrectedToFirstMode ==
    AgesDone =>
        LET corrected == {c \in {cleaned[j].customerId : j \in 1..Len(cleaned)} :
                            Cardinality(AgeSetOf(cleaned, c)) > 1}
        IN  /\ Len(agesCorrected) = Len(cleaned)
            /\ \A k \in 1..Len(cleaned) :
                  /\ [agesCorrected[k] EXCEPT !.age = cleaned[k].age] = cleaned[k]
                  /\ agesCorrected[k].age =
                        IF cleaned[k].customerId \in corrected
                        THEN ExpectedMode(cleaned, cleaned[k].customerId)
                        ELSE cleaned[k].age
            /\ Len(ageCorrections) = Cardinality(corrected)
            /\ \A c \in corrected :
                  \E k \in 1..Len(ageCorrections) :
                      /\ ageCorrections[k].customerId = c
                      /\ ageCorrections[k].correctedTo = ExpectedMode(cleaned, c)

\* a customer whose ages are 31 then 30 (a tie) has been corrected to 31
C7_Witness ==
    /\ stage = "agesCorrected"
    /\ \E c \in {1, 2} :
          /\ AgesOf(cleaned, c) = <<31, 30>>
          /\ AgesOf(agesCorrected, c) = <<31, 31>>
          /\ \E k \in 1..Len(ageCorrections) : ageCorrections[k].customerId = c

\* C8: removeDuplicateTransactions splits its input without losing or
\* inventing records: unique is the input restricted to the first record of
\* each identity key, duplicates the input restricted to the others, both in
\* input order.
C8_DedupPartitionsInput ==
    DedupDone =>
        LET data == agesCorrected
            firsts == {i \in 1..Len(data) :
                         \A j \in 1..(i - 1) : ~SameIdentity(data[j], data[i])}
        IN  /\ deduplicated = Pick(data, firsts)
            /\ duplicates = Pick(data, (1..Len(data)) \ firsts)
            /\ Len(deduplicated) + Len(duplicates) = Len(data)

\* a duplicate was removed from between two records that were kept
C8_Witness ==
    /\ stage = "deduplicated"
    /\ Len(agesCorrected) = 3
    /\ Len(duplicates) = 1
    /\ duplicates[1] = agesCorrected[2]
    /\ deduplicated = <<agesCorrected[1], agesCorrected[3]>>
    /\ agesCorrected[1].transactionType # agesCorrected[3].transactionType

\* C9: removeDuplicateTransactions applied to its own unique output returns
\* that list unchanged and no duplicates.
C9_DedupIdempotent ==
    DedupDone =>
        LET again == removeDuplicateTransactions(deduplicated)
        IN  /\ again.unique = deduplicated
            /\ again.duplicates = <<>>

\* the first pass did remove a record
C9_Witness ==
    /\ stage = "deduplicated"
    /\ Len(duplicates) >= 1
    /\ Len(deduplicated) >= 2
    /\ removeDuplicateTransactions(deduplicated).unique = deduplicated

\* C10: the dedup pass of cleanDataset identifies a record by its transaction
\* identifier: two records with different transaction identifiers are never
\* classified as duplicates of each other.
C10_DedupByTransactionId ==
    DedupDone =>
        \A k \in 1..Len(duplicates) :
            \E j \in 1..Len(deduplicated) :
                /\ SameIdentity(deduplicated[j], duplicates[k])
                /\ deduplicated[j].transactionId = duplicates[k].transactionId

-----------------------------------------------------------------------------
\* C12: every record returned by rowToCleaned, and so every record of clean,
\* has a customerId that is an integer greater than 0; a row whose
\* customer-id column is empty, zero, negative or non-numeric is dropped
\* before any validation rule is applied.
C12_CustomerIdPositive ==
    /\ \A i \in 1..Len(rows) : CleanedAt(i).ok => CleanedAt(i).customerId > 0
    /\ \A j \in 1..Len(clean) : clean[j].customerId > 0

-----------------------------------------------------------------------------
\* positions in errors of the entries logged for the row at position i
ErrorsAt(i) == {k \in 1..Len(errors) : errors[k].rowIndex = i - 1}

\* a and b are the same transaction: the same transaction id when one of them
\* has an id, the same customer, date, type, amount and branch otherwise
SameTransaction(a, b) ==
    IF a.transactionId # UndefinedStr \/ b.transactionId # UndefinedStr
    THEN a.transactionId = b.transactionId
    ELSE /\ a.customerId = b.customerId
         /\ a.transactionDate = b.transactionDate
         /\ a.transactionType = b.transactionType
         /\ a.transactionAmount = b.transactionAmount
         /\ a.branchId = b.branchId

\* the row at position i repeats an earlier cleaned row
IsDuplicateRow(i) ==
    /\ CleanedAt(i).ok
    /\ \E k \in 1..(i - 1) : CleanedAt(k).ok /\ SameTransaction(CleanedAt(k), CleanedAt(i))

-----------------------------------------------------------------------------
\* C14: the clean list returned by validateAndClean is sorted by customerId
\* ascending and, within one customer, by transactionDate ascending, whatever
\* the input order; it holds every retained row exactly once.
C14_CleanSortedPermutation ==
    done =>
        /\ \A j \in 1..(Len(clean) - 1) :
              \/ clean[j].customerId < clean[j + 1].customerId
              \/ /\ clean[j].customerId = clean[j + 1].customerId
                 /\ clean[j].transactionDate <= clean[j + 1].transactionDate
        /\ \A r \in {rows[i] : i \in 1..Len(rows)} \cup {clean[j].raw : j \in 1..Len(clean)} :
              Cardinality({j \in 1..Len(clean) : clean[j].raw = r})
                = Cardinality({i \in 1..Len(rows) : Retained(i) /\ rows[i] = r})

\* three retained rows given in the reverse of their sorted order
C14_Witness ==
    /\ done
    /\ Len(rows) = 3
    /\ Len(clean) = 3
    /\ clean[1].raw = rows[3] /\ clean[2].raw = rows[2] /\ clean[3].raw = rows[1]
    /\ clean[1].customerId = clean[2].customerId
    /\ clean[1].transactionDate < clean[2].transactionDate
    /\ clean[2].customerId < clean[3].customerId

-----------------------------------------------------------------------------
AgeInRange(age) == age # Undefined /\ age # NaN /\ age >= MIN_AGE /\ age <= MAX_AGE

\* the earlier rows whose age the loop could record for the customer of row
\* i: cleaned, not a duplicate, carrying an age, not out of range
AgeRecorders(i) ==
    {k \in 1..(i - 1) :
        /\ CleanedAt(k).ok
        /\ ~IsDuplicateRow(k)
        /\ CleanedAt(k).customerId = CleanedAt(i).customerId
        /\ CleanedAt(k).age # Undefined
        /\ ~HasError(k, "Age out of range")}

\* the row at position i has an in-range age that differs from the age first
\* recorded for its customer
AgeDiffersFromFirst(i) ==
    /\ CleanedAt(i).ok
    /\ ~IsDuplicateRow(i)
    /\ AgeInRange(CleanedAt(i).age)
    /\ LET recorders == AgeRecorders(i)
       IN  /\ recorders # {}
           /\ LET first == CHOOSE k \in recorders : \A m \in recorders : k <= m
              IN  CleanedAt(first).age # CleanedAt(i).age

\* C17: in clean all records of one customer that carry an age carry the
\* same age; a row whose in-range age differs from the age first recorded for
\* its customer is not dropped for that: it stays with its age removed, and
\* exactly one "Age inconsistency" error is logged for it.
C17_OneAgePerCustomer ==
    /\ \A j, k \in 1..Len(clean) :
          (/\ clean[j].customerId = clean[k].customerId
           /\ clean[j].age # Undefined
           /\ clean[k].age # Undefined) => clean[j].age = clean[k].age
    /\ \A i \in 1..Len(rows) :
          AgeDiffersFromFirst(i) =>
            /\ Cardinality({k \in ErrorsAt(i) : errors[k].reason = "Age inconsistency"}) = 1
            /\ ~HasError(i, "Age out of range")
            /\ ~HasError(i, "Deposit amount must be positive") =>
                  \E j \in 1..Len(clean) :
                      clean[j].raw = rows[i] /\ clean[j].age = Undefined
    /\ \A i \in 1..Len(rows) :
          HasError(i, "Age inconsistency") =>
              CleanedAt(i).age # Undefined /\ AgeRecorders(i) # {}

\* a customer seen with age 31 and then with age 30: both rows are in clean,
\* the second without its age
C17_Witness ==
    /\ done
    /\ \E i, m \in 1..Len(rows) :
          /\ i < m
          /\ CleanedAt(i).ok /\ CleanedAt(m).ok
          /\ CleanedAt(i).age = 31 /\ CleanedAt(m).age = 30
          /\ AgeDiffersFromFirst(m)
          /\ Retained(i) /\ Retained(m)
          /\ \E j, k \in 1..Len(clean) :
                /\ clean[j].raw = rows[i] /\ clean[j].age = 31
                /\ clean[k].raw = rows[m] /\ clean[k].age = Undefined

-----------------------------------------------------------------------------
(***************************************************************************)
(* cleanRecord (the cleaning module of src/lib/dataProcessing) and the    *)
(* parsers it imports from "./parser"                                      *)
(***************************************************************************)

\* !x on a number
Falsy(x) == x = 0 \/ x = NaN

\* parseInteger: 0 for a missing, empty or non-numeric value
parseInteger(value) ==
    CASE value = ABSENT -> 0
      [] value = ""     -> 0
      [] value = "abc"  -> 0
      [] value = "0"    -> 0
      [] value = "1"    -> 1
      [] value = "2"    -> 2
      [] value = "17"   -> 17
      [] value = "30"   -> 30
      [] value = "31"   -> 31

\* parseAmount of the library: 0 for a missing, empty, "N/A" or non-numeric
\* value, cents otherwise
parseAmountOrZero(amount) ==
    CASE amount = ABSENT  -> 0
      [] amount = ""      -> 0
      [] amount = "N/A"   -> 0
      [] amount = "abc"   -> 0
      [] amount = "0.00"  -> 0
      [] amount = "0.03"  -> 3
      [] amount = "$0.03" -> 3
      [] amount = "-0.03" -> -3

\* parseDate of the library: null for a missing, empty, "N/A" or invalid value
parseDateOrNull(dateString) ==
    CASE dateString = ABSENT       -> Undefined
      [] dateString = ""           -> Undefined
      [] dateString = "N/A"        -> Undefined
      [] dateString = "abc"        -> Undefined
      [] dateString = "2024-01-01" -> 1
      [] dateString = "2024-01-02" -> 2

parseTransactionType(type) ==
    CASE type \in {"Deposit", "deposit"}       -> "Deposit"
      [] type \in {"Withdrawal", "withdrawal"} -> "Withdrawal"
      [] type \in {"Transfer", "transfer"}     -> "Transfer"
      [] OTHER                                   -> UndefinedStr

parseAccountType(type) ==
    CASE type \in {"Current", "checking"} -> "Current"
      [] type \in {"Savings", "savings"}  -> "Savings"
      [] OTHER                             -> UndefinedStr

\* raw[...]?.trim() || ""
TrimOrEmpty(value) == IF value = ABSENT THEN "" ELSE value

Null == [ok |-> FALSE]

cleanRecord(r) ==
    LET customerId      == parseInteger(r.CustomerId)
        transactionId   == parseInteger(r.TransactionID)
        transactionDate == parseDateOrNull(r.TransactionDate)
        age             == parseInteger(r.Age)
        transactionAmount == parseAmountOrZero(r.TransactionAmount)
        accountBalanceAfterTransaction == parseAmountOrZero(r.BalanceAfter)
        transactionType == parseTransactionType(r.TransactionType)
        accountType     == parseAccountType(r.AccountType)
        anomaly         == parseInteger(r.Anomaly)
    IN  IF \/ Falsy(customerId)
           \/ Falsy(transactionId)
           \/ transactionDate = Undefined
           \/ Falsy(age)
           \/ transactionAmount = Undefined
           \/ accountBalanceAfterTransaction = Undefined
        THEN Null
        ELSE IF transactionType = UndefinedStr \/ accountType = UndefinedStr
        THEN Null
        ELSE [ok |-> TRUE,
              customerId |-> customerId, transactionId |-> transactionId,
              transactionDate |-> transactionDate,
              transactionType |-> transactionType,
              transactionAmount |-> transactionAmount,
              accountBalance |-> parseAmountOrZero(r.AccountBalance),
              accountBalanceAfterTransaction |-> accountBalanceAfterTransaction,
              age |-> age, accountType |-> accountType,
              branchId |-> TrimOrEmpty(r.BranchID),
              anomaly |-> IF Falsy(anomaly) THEN Undefined ELSE anomaly]

\* the raw records a parsed CSV line can be
RawRecords ==
    [CustomerId : {"1", "", "abc"},
     TransactionID : {"1", ""},
     TransactionDate : {"2024-01-01", "", "abc"},
     Age : {"30", "", "abc"},
     TransactionAmount : {"0.03", "$0.03", "", "abc"},
     BalanceAfter : {"0.03", ""},
     AccountBalance : {"0.00"},
     TransactionType : {"Deposit", "Bonus", ""},
     AccountType : {"Savings", ""},
     BranchID : {"B1"},
     Anomaly : {"", "1"}]

InitClean ==
    /\ call = "ready"
    /\ raw \in RawRecords
    /\ cleanedRecord = Null
    /\ transactions = <<>>
    /\ reconciled = <<>>
    /\ dataset = <<>>
    /\ anomalies = <<>>
    /\ DashIdle
    /\ LibIdle
    /\ FnIdle
    /\ LoaderIdle

CleanRecord ==
    /\ call = "ready"
    /\ cleanedRecord' = cleanRecord(raw)
    /\ call' = "returned"
    /\ UNCHANGED <<raw, transactions, reconciled, dataset, anomalies, fnVars, loaderVars,
                 dashVars, libVars>>

NextClean == CleanRecord

SpecClean == InitClean /\ [][NextClean]_vars

\* what a raw value must be for the field to parse
CustomerIdParses(r) == r.CustomerId \in {"1"}
TransactionDateParses(r) == r.TransactionDate \in {"2024-01-01"}
TransactionAmountParses(r) == r.TransactionAmount \in {"0.03", "$0.03"}

\* C11: cleanRecord returns null if and only if customerId, transactionDate
\* or transactionAmount fails to parse; a row with an empty or unparseable
\* Transaction Amount is rejected, a row whose three required fields parse is
\* admitted whatever its optional fields are.
C11_RejectedIffRequiredFieldFails ==
    call = "returned" =>
        (cleanedRecord.ok <=>
            /\ CustomerIdParses(raw)
            /\ TransactionDateParses(raw)
            /\ TransactionAmountParses(raw))

-----------------------------------------------------------------------------
(***************************************************************************)
(* reconcileCustomerBalances (src/lib/dataProcessing/validator.ts)         *)
(***************************************************************************)

\* [...customerTransactions].sort by transactionDate; the sort is stable
RECURSIVE InsertByDate(_, _)
InsertByDate(s, x) ==
    IF s = <<>> THEN <<x>>
    ELSE IF x.transactionDate < Head(s).transactionDate THEN <<x>> \o s
    ELSE <<Head(s)>> \o InsertByDate(Tail(s), x)

RECURSIVE SortByDate(_)
SortByDate(s) ==
    IF s = <<>> THEN <<>>
    ELSE InsertByDate(SortByDate(SubSeq(s, 1, Len(s) - 1)), s[Len(s)])

\* the callback of sorted.map from position i on; runningBalance is the
\* closure variable, out the elements mapped so far
RECURSIVE ReconcileFrom(_, _, _, _)
ReconcileFrom(sorted, i, runningBalance, out) ==
    IF i > Len(sorted) THEN out
    ELSE LET transaction == sorted[i] IN
         IF i = 1
         THEN ReconcileFrom(sorted, i + 1, transaction.accountBalanceAfterTransaction,
                            Append(out, transaction))
         ELSE LET expectedBalance ==
                      calculateExpectedBalance(runningBalance, transaction.transactionType,
                                               transaction.transactionAmount)
              IN  ReconcileFrom(sorted, i + 1, expectedBalance,
                      Append(out,
                          [transaction EXCEPT
                              !.accountBalance = expectedBalance - transaction.transactionAmount,
                              !.accountBalanceAfterTransaction = expectedBalance]))

reconcileCustomerBalances(customerTransactions) ==
    LET sorted == SortByDate(customerTransactions)
    IN  ReconcileFrom(sorted, 1, IF sorted = <<>> THEN 0 ELSE sorted[1].accountBalance, <<>>)

\* the records of one customer
CustomerRecs == {r \in RecSet : r.customerId = 1}

InitReconcile ==
    /\ call = "ready"
    /\ transactions \in SeqsUpTo(CustomerRecs, MaxData)
    /\ reconciled = <<>>
    /\ raw = <<>>
    /\ cleanedRecord = <<>>
    /\ dataset = <<>>
    /\ anomalies = <<>>
    /\ DashIdle
    /\ LibIdle
    /\ FnIdle
    /\ LoaderIdle

ReconcileCustomerBalances ==
    /\ call = "ready"
    /\ reconciled' = reconcileCustomerBalances(transactions)
    /\ call' = "returned"
    /\ UNCHANGED <<transactions, raw, cleanedRecord, dataset, anomalies, fnVars, loaderVars,
                 dashVars, libVars>>

NextReconcile == ReconcileCustomerBalances

SpecReconcile == InitReconcile /\ [][NextReconcile]_vars

\* the input in the order of the output
SortedInput == SortByDate(transactions)

\* validateTransaction reports a balance that does not reconcile
HasReconcileError(t) ==
    \E k \in 1..Len(validateTransaction(t, 0)) :
        validateTransaction(t, 0)[k].reason = "Account balance doesn't reconcile"

\* C15: in reconcileCustomerBalances a Transfer is trusted as-is: its
\* reported post-transaction balance is unchanged in the output and is the
\* running balance from which the customer's next record is computed.
C15_TransferTrusted ==
    call = "returned" =>
        \A k \in 1..Len(reconciled) :
            reconciled[k].transactionType = "Transfer" =>
                /\ reconciled[k].accountBalanceAfterTransaction
                      = SortedInput[k].accountBalanceAfterTransaction
                /\ (k < Len(reconciled) /\ reconciled[k + 1].transactionType # "Transfer") =>
                      reconciled[k + 1].accountBalanceAfterTransaction
                        = calculateExpectedBalance(
                              SortedInput[k].accountBalanceAfterTransaction,
                              reconciled[k + 1].transactionType,
                              reconciled[k + 1].transactionAmount)

\* C16: the output of reconcileCustomerBalances is sorted by transactionDate
\* with the first record unchanged; every later record's accountBalance is the
\* previous record's post-transaction balance and its post-transaction balance
\* is the expected balance for its type and amount, so validateTransaction
\* reports no reconciliation error for it.
C16_ChainFixed ==
    call = "returned" =>
        /\ Len(reconciled) = Len(transactions)
        /\ Len(reconciled) >= 1 => reconciled[1] = SortedInput[1]
        /\ \A k \in 2..Len(reconciled) :
              /\ reconciled[k - 1].transactionDate <= reconciled[k].transactionDate
              /\ reconciled[k].accountBalance
                    = reconciled[k - 1].accountBalanceAfterTransaction
              /\ reconciled[k].accountBalanceAfterTransaction
                    = calculateExpectedBalance(reconciled[k].accountBalance,
                                               reconciled[k].transactionType,
                                               reconciled[k].transactionAmount)
              /\ ~HasReconcileError(reconciled[k])

-----------------------------------------------------------------------------
(***************************************************************************)
(* detectAnomalousTransactions (src/lib/dataProcessing/aggregator.ts)      *)
(*                                                                         *)
(* In this section transactionDate is held in hours.                       *)
(***************************************************************************)

MaxAnomalyData == 2

\* 24 * 60 * 60 * 1000 ms, in hours
DAY == 24

RECURSIVE SumAmounts(_)
SumAmounts(s) ==
    IF s = <<>> THEN 0 ELSE Head(s).transactionAmount + SumAmounts(Tail(s))

RECURSIVE SumSquares(_)
SumSquares(s) ==
    IF s = <<>> THEN 0
    ELSE Head(s).transactionAmount * Head(s).transactionAmount + SumSquares(Tail(s))

\* customerTransactions.get(customerId)
CustomerTxns(d, customerId) == SelectSeq(d, LAMBDA t : t.customerId = customerId)

\* transaction.anomaly > 1
FlaggedInSource_AboveOne(transaction) == transaction.anomaly > 1

\* transaction.anomaly === 1
FlaggedInSource(transaction) == transaction.anomaly = 1

\* zScore > 3 with mean and stdDev of all amounts: |amt - mean| > 3 stdDev,
\* multiplied out by the record count; a zero stdDev makes zScore NaN or
\* leaves amt = mean, and the test false
ZScoreAboveThree(d, transaction) ==
    LET n == Len(d)
        sum == SumAmounts(d)
        dev == n * transaction.transactionAmount - sum
    IN  dev * dev > 9 * (n * SumSquares(d) - sum * sum)

\* customerTxns.length > 1 and amount > customerMean * 5
FiveTimesCustomerMean(d, transaction) ==
    LET customerTxns == CustomerTxns(d, transaction.customerId)
    IN  /\ Len(customerTxns) > 1
        /\ transaction.transactionAmount * Len(customerTxns) > 5 * SumAmounts(customerTxns)

\* accountBalanceAfterTransaction < -1000
SignificantNegativeBalance(transaction) ==
    transaction.accountBalanceAfterTransaction < -100000

recentWithdrawals(d, transaction) ==
    SelectSeq(CustomerTxns(d, transaction.customerId),
              LAMBDA t : /\ t.transactionType = "Withdrawal"
                         /\ Abs(t.transactionDate - transaction.transactionDate) < DAY)

RapidWithdrawals(d, transaction) == Len(recentWithdrawals(d, transaction)) > 5

\* the reasons pushed for one transaction, in the order of the checks
ReasonsOf(d, transaction) ==
    (IF FlaggedInSource(transaction) THEN <<"Flagged as anomaly in source data">> ELSE <<>>)
    \o (IF ZScoreAboveThree(d, transaction)
        THEN <<"Amount is z standard deviations from mean">> ELSE <<>>)
    \o (IF FiveTimesCustomerMean(d, transaction)
        THEN <<"Transaction is 5x customer's average">> ELSE <<>>)
    \o (IF SignificantNegativeBalance(transaction)
        THEN <<"Results in significant negative balance">> ELSE <<>>)
    \o (IF RapidWithdrawals(d, transaction)
        THEN <<"Multiple withdrawals in 24 hours">> ELSE <<>>)

ScoreOf(d, transaction) ==
    (IF FlaggedInSource(transaction) THEN 50 ELSE 0)
    + (IF ZScoreAboveThree(d, transaction) THEN 30 ELSE 0)
    + (IF FiveTimesCustomerMean(d, transaction) THEN 20 ELSE 0)
    + (IF SignificantNegativeBalance(transaction) THEN 25 ELSE 0)
    + (IF RapidWithdrawals(d, transaction) THEN 15 ELSE 0)

\* data.forEach from position i on; index stands for the identity of the
\* referenced input element
RECURSIVE DetectFrom(_, _, _)
DetectFrom(d, i, out) ==
    IF i > Len(d) THEN out
    ELSE LET reasons == ReasonsOf(d, d[i])
         IN  DetectFrom(d, i + 1,
                 IF Len(reasons) > 0
                 THEN Append(out, [transaction |-> d[i], index |-> i,
                                   anomalyScore |-> ScoreOf(d, d[i]),
                                   anomalyReasons |-> reasons])
                 ELSE out)

\* a comparator that puts the lowest score first
ScoreSortsBefore_Ascending(a, b) == a.anomalyScore < b.anomalyScore

\* the comparator of anomalies.sort: a sorts before b
ScoreSortsBefore(a, b) == a.anomalyScore > b.anomalyScore

RECURSIVE InsertByScore(_, _)
InsertByScore(s, x) ==
    IF s = <<>> THEN <<x>>
    ELSE IF ScoreSortsBefore(x, Head(s)) THEN <<x>> \o s
    ELSE <<Head(s)>> \o InsertByScore(Tail(s), x)

RECURSIVE SortByScore(_)
SortByScore(s) ==
    IF s = <<>> THEN <<>>
    ELSE InsertByScore(SortByScore(SubSeq(s, 1, Len(s) - 1)), s[Len(s)])

detectAnomalousTransactions(d) == SortByScore(DetectFrom(d, 1, <<>>))

\* the records of a dataset
ARec(cid, hour, type, amount, after, anomaly) ==
    [customerId |-> cid, transactionDate |-> hour, transactionType |-> type,
     transactionAmount |-> amount, accountBalanceAfterTransaction |-> after,
     anomaly |-> anomaly]

\* a withdrawal of customer 1 that a dataset can hold several times over
RepeatedWithdrawal == ARec(1, 12, "Withdrawal", 3, 0, Undefined)

RepeatCounts == {0, 5, 10}

AnomalyRecs ==
    { ARec(1, 0,  "Withdrawal", 3,  0,       Undefined),
      ARec(1, 30, "Deposit",    3,  0,       Undefined),
      ARec(1, 30, "Withdrawal", 30, 0,       1),
      ARec(2, 0,  "Deposit",    3,  -100003, Undefined),
      ARec(2, 0,  "Deposit",    3,  0,       1),
      ARec(2, 48, "Deposit",    3,  0,       Undefined) }

InitAnomalies ==
    /\ call = "ready"
    /\ \E n \in RepeatCounts, tail \in SeqsUpTo(AnomalyRecs, MaxAnomalyData) :
          dataset = [i \in 1..n |-> RepeatedWithdrawal] \o tail
    /\ anomalies = <<>>
    /\ raw = <<>>
    /\ cleanedRecord = <<>>
    /\ transactions = <<>>
    /\ reconciled = <<>>
    /\ DashIdle
    /\ LibIdle
    /\ FnIdle
    /\ LoaderIdle

DetectAnomalousTransactions ==
    /\ call = "ready"
    /\ anomalies' = detectAnomalousTransactions(dataset)
    /\ call' = "returned"
    /\ UNCHANGED <<dataset, raw, cleanedRecord, transactions, reconciled, fnVars, loaderVars,
                 dashVars, libVars>>

NextAnomalies == DetectAnomalousTransactions

SpecAnomalies == InitAnomalies /\ [][NextAnomalies]_vars

-----------------------------------------------------------------------------
(* Vocabulary of the detectAnomalousTransactions claims *)

\* positions in anomalies of the entries that refer to the input element i
EntriesOf(i) == {k \in 1..Len(anomalies) : anomalies[k].index = i}

HasReason(entry, reason) ==
    \E j \in 1..Len(entry.anomalyReasons) : entry.anomalyReasons[j] = reason

\* the signals in their fixed order, with their weights
SignalReasons == <<"Flagged as anomaly in source data",
                   "Amount is z standard deviations from mean",
                   "Transaction is 5x customer's average",
                   "Results in significant negative balance",
                   "Multiple withdrawals in 24 hours">>
SignalWeights == <<50, 30, 20, 25, 15>>

\* signal s fired for the input element i
Fired(s, i) ==
    CASE s = 1 -> FlaggedInSource(dataset[i])
      [] s = 2 -> ZScoreAboveThree(dataset, dataset[i])
      [] s = 3 -> FiveTimesCustomerMean(dataset, dataset[i])
      [] s = 4 -> SignificantNegativeBalance(dataset[i])
      [] s = 5 -> RapidWithdrawals(dataset, dataset[i])

RECURSIVE WeightSum(_)
WeightSum(S) ==
    IF S = {} THEN 0
    ELSE LET s == CHOOSE x \in S : TRUE IN SignalWeights[s] + WeightSum(S \ {s})

\* withdrawals of the customer of element i dated within the 24 hours that
\* end at the date of element i
TrailingWithdrawals(i) ==
    {j \in 1..Len(dataset) :
        /\ dataset[j].customerId = dataset[i].customerId
        /\ dataset[j].transactionType = "Withdrawal"
        /\ dataset[j].transactionDate <= dataset[i].transactionDate
        /\ dataset[i].transactionDate - dataset[j].transactionDate < DAY}

\* C18: every input record with anomaly = 1 appears in the output of
\* detectAnomalousTransactions with anomalyScore >= 50 and with
\* "Flagged as anomaly in source data" first in its reasons, whatever the
\* other records are.
C18_FlaggedAlwaysReported ==
    call = "returned" =>
        \A i \in 1..Len(dataset) :
            dataset[i].anomaly = 1 =>
                \E k \in EntriesOf(i) :
                    /\ anomalies[k].transaction = dataset[i]
                    /\ anomalies[k].anomalyScore >= 50
                    /\ anomalies[k].anomalyReasons[1] = "Flagged as anomaly in source data"

\* a flagged record for which three more signals fired, in a dataset of
\* eleven other records
C18_Witness ==
    /\ call = "returned"
    /\ Len(dataset) = 12
    /\ \E i \in 1..Len(dataset), k \in 1..Len(anomalies) :
          /\ dataset[i].anomaly = 1
          /\ anomalies[k].index = i
          /\ anomalies[k].anomalyScore > 50
          /\ Len(anomalies[k].anomalyReasons) >= 3

\* C19: each entry's anomalyScore is the sum of the weights (50, 30, 20, 25,
\* 15) of the signals that fired for it, its reasons hold one entry per fired
\* signal in that order; an input record is in the output if and only if a
\* signal fired; the output is in non-increasing score order, equal scores in
\* input order.
C19_ScoreSumsFiredSignals ==
    call = "returned" =>
        /\ \A i \in 1..Len(dataset) :
              LET fired == {s \in 1..5 : Fired(s, i)}
              IN  /\ Cardinality(EntriesOf(i)) = IF fired = {} THEN 0 ELSE 1
                  /\ \A k \in EntriesOf(i) :
                        /\ anomalies[k].transaction = dataset[i]
                        /\ anomalies[k].anomalyScore = WeightSum(fired)
                        /\ Len(anomalies[k].anomalyReasons) = Cardinality(fired)
                        /\ \A s \in fired : HasReason(anomalies[k], SignalReasons[s])
                        /\ \A a, b \in 1..Len(anomalies[k].anomalyReasons) :
                              a < b =>
                                \E sa, sb \in fired :
                                    /\ sa < sb
                                    /\ anomalies[k].anomalyReasons[a] = SignalReasons[sa]
                                    /\ anomalies[k].anomalyReasons[b] = SignalReasons[sb]
        /\ \A k \in 1..Len(anomalies) : anomalies[k].index \in 1..Len(dataset)
        /\ \A k \in 1..(Len(anomalies) - 1) :
              \/ anomalies[k].anomalyScore > anomalies[k + 1].anomalyScore
              \/ /\ anomalies[k].anomalyScore = anomalies[k + 1].anomalyScore
                 /\ anomalies[k].index < anomalies[k + 1].index

\* the last input record has the highest score and comes first, ahead of
\* entries of equal score that keep their input order
C19_Witness ==
    /\ call = "returned"
    /\ Len(anomalies) >= 3
    /\ anomalies[1].index = Len(dataset)
    /\ anomalies[1].anomalyScore = 115
    /\ anomalies[2].anomalyScore = anomalies[3].anomalyScore
    /\ anomalies[2].index < anomalies[3].index

\* C20: the rapid-withdrawal signal fires for a record if and only if more
\* than 5 Withdrawal records of the same customer are dated within the 24
\* hours ending at the record's date; later withdrawals do not count.
C20_RapidWithdrawalsTrailingWindow ==
    call = "returned" =>
        \A i \in 1..Len(dataset) :
            (\E k \in EntriesOf(i) : HasReason(anomalies[k], "Multiple withdrawals in 24 hours"))
                <=> Cardinality(TrailingWithdrawals(i)) > 5

-----------------------------------------------------------------------------
(***************************************************************************)
(* validateAndClean: the accounting of rows, dropped rows and customers.   *)
(* SpecRows has the behaviours of Spec; the properties of this section,    *)
(* which apply the function again to parts of the input, are checked under *)
(* it apart from those of Spec.                                            *)
(***************************************************************************)
SpecRows == Init /\ [][Next]_vars

\* positions in errors of the dropping errors logged for the row at position i
DroppingErrorsAt(i) == {k \in ErrorsAt(i) : errors[k].reason \in DroppingReasons}

\* C26: validateAndClean accounts for every input row exactly once: a row is
\* in clean exactly once or dropped with exactly one dropping error, never
\* both; the number of rows is the length of clean plus the number of
\* dropping errors; a row kept in clean contributes only "Age
\* inconsistency" and "Balance mismatch" errors, at most one of each.
C26_EveryRowAccountedOnce ==
    /\ \A k \in 1..Len(errors) : errors[k].rowIndex \in 0..(Len(rows) - 1)
    /\ \A i \in 1..Len(rows) :
          /\ Cardinality(DroppingErrorsAt(i)) <= 1
          /\ DroppingErrorsAt(i) = {} =>
                /\ \A k \in ErrorsAt(i) :
                      errors[k].reason \in {"Age inconsistency", "Balance mismatch"}
                /\ \A a, b \in ErrorsAt(i) : errors[a].reason = errors[b].reason => a = b
                /\ Cardinality({j \in 1..Len(clean) : clean[j].raw = rows[i]})
                     = Cardinality({m \in 1..Len(rows) :
                                       rows[m] = rows[i] /\ DroppingErrorsAt(m) = {}})
    /\ Len(rows) = Len(clean)
                     + Cardinality({k \in 1..Len(errors) : errors[k].reason \in DroppingReasons})

\* three rows: one kept without an error, one kept with an age inconsistency
\* and a balance mismatch, one dropped
C26_Witness ==
    /\ done
    /\ Len(rows) = 3
    /\ Len(clean) = 2
    /\ Len(errors) = 3
    /\ \E i, m \in 1..Len(rows) :
          /\ HasError(i, "Age inconsistency") /\ HasError(i, "Balance mismatch")
          /\ Cardinality(DroppingErrorsAt(m)) = 1

\* the loop state before the first row
InitialLoopState ==
    [clean |-> <<>>, errors |-> <<>>, seenTxn |-> {},
     ageByCustomer |-> EmptyMap, lastBalanceByCustomer |-> EmptyMap]

\* rows.forEach from the row at position i on
RECURSIVE ForEachFrom(_, _, _)
ForEachFrom(input, i, st) ==
    IF i > Len(input) THEN st
    ELSE ForEachFrom(input, i + 1, ProcessRow(st, input[i], i - 1))

\* validateAndClean(rows) as a function of its argument
validateAndClean(input) ==
    LET st == ForEachFrom(input, 1, InitialLoopState)
    IN  [clean |-> SortClean(st.clean), errors |-> st.errors]

\* the positions of I in ascending order
RECURSIVE Ascending(_)
Ascending(I) ==
    IF I = {} THEN <<>>
    ELSE LET i == CHOOSE x \in I : \A y \in I : x <= y
         IN  <<i>> \o Ascending(I \ {i})

\* the row position and reason of every entry of errs that belongs to a
\* position listed in pos, positions counted in pos
ReasonsAt(errs, pos) ==
    LET mine == SelectSeq(errs, LAMBDA e : \E n \in 1..Len(pos) : pos[n] = e.rowIndex + 1)
    IN  [k \in 1..Len(mine) |->
            <<CHOOSE n \in 1..Len(pos) : pos[n] = mine[k].rowIndex + 1, mine[k].reason>>]

\* C27: a dropped row has no effect on the other rows: validateAndClean on
\* the input without the dropped rows yields the same clean records, ages
\* included, and the same errors with the same reasons for the remaining
\* rows.
C27_DroppedRowsHaveNoEffect ==
    done =>
        LET pos  == Ascending({i \in 1..Len(rows) : Retained(i)})
            rest == [n \in 1..Len(pos) |-> rows[pos[n]]]
            res  == validateAndClean(rest)
        IN  /\ res.clean = clean
            /\ ReasonsAt(res.errors, [n \in 1..Len(pos) |-> n]) = ReasonsAt(errors, pos)

\* the positions of the rows of customer c, in input order
RowsOfCustomer(c) ==
    Ascending({i \in 1..Len(rows) : CleanedAt(i).ok /\ CleanedAt(i).customerId = c})

\* validateAndClean on the rows of customer c alone gives the records and
\* the errors that customer c has in clean and errors
SameAsAlone(c) ==
    LET pos == RowsOfCustomer(c)
        res == validateAndClean([n \in 1..Len(pos) |-> rows[pos[n]]])
    IN  /\ res.clean = SelectSeq(clean, LAMBDA ct : ct.customerId = c)
        /\ ReasonsAt(res.errors, [n \in 1..Len(pos) |-> n]) = ReasonsAt(errors, pos)

\* the row at position i carries a transaction id that an earlier row of
\* another customer carries
SharesIdWithOtherCustomer(i) ==
    /\ CleanedAt(i).ok
    /\ CleanedAt(i).transactionId # UndefinedStr
    /\ \E k \in 1..(i - 1) :
          /\ CleanedAt(k).ok
          /\ CleanedAt(k).transactionId = CleanedAt(i).transactionId
          /\ CleanedAt(k).customerId # CleanedAt(i).customerId

\* C28: validateAndClean treats customers independently: the records kept
\* for a customer, their ages and the errors reported for them are those of
\* validateAndClean on the customer's own rows alone.
C28_CustomersIndependent ==
    done => \A c \in 0..2 : SameAsAlone(c)

\* C28 as the code has it: the duplicate check by transaction id spans the
\* customers, so a row whose id an earlier row of another customer carries is
\* dropped as a duplicate; a customer without such a row is treated as on
\* the customer's own rows alone.
C28_IndependentButForSharedIds ==
    done =>
        /\ \A i \in 1..Len(rows) :
              SharesIdWithOtherCustomer(i) =>
                  ErrorsAt(i) # {} /\ \A k \in ErrorsAt(i) : errors[k].reason = "Duplicate transaction"
        /\ \A c \in 0..2 :
              (\A n \in 1..Len(RowsOfCustomer(c)) : ~SharesIdWithOtherCustomer(RowsOfCustomer(c)[n]))
                  => SameAsAlone(c)

\* rows of customers 1 and 2 interleaved: customer 1 has a balance mismatch
\* and customer 2 an age inconsistency, as each has alone
C28_Witness ==
    /\ done
    /\ Len(rows) = 3
    /\ Len(RowsOfCustomer(1)) = 2
    /\ RowsOfCustomer(2) = <<2>>
    /\ HasError(3, "Balance mismatch")
    /\ \A i \in 1..3 : Retained(i) /\ ~SharesIdWithOtherCustomer(i)
    /\ SameAsAlone(1) /\ SameAsAlone(2)

-----------------------------------------------------------------------------
(***************************************************************************)
(* The other functions, one call each: callee names the function,          *)
(* argument is what it is called with and returnValue what it returns.     *)
(***************************************************************************)

\* the function under call returns value
Returns(value) ==
    /\ call = "ready"
    /\ returnValue' = value
    /\ call' = "returned"
    /\ UNCHANGED <<callee, argument, raw, cleanedRecord, transactions, reconciled,
                   dataset, anomalies, loaderVars, dashVars, libVars>>

Returned(f) == callee = f /\ call = "returned"

-----------------------------------------------------------------------------
(* cleanDataset (the cleaning module of src/lib/dataProcessing) *)

\* the return statement of cleanDataset
ProcessingResult(rawData, cleanedData, ageResult, dedupResult, validation) ==
    [validData |-> validation.valid,
     invalidRecords |-> validation.invalid,
     processingReport |->
        [totalRawRecords |-> Len(rawData),
         successfullyCleaned |-> Len(cleanedData),
         ageCorrections |-> Len(ageResult.corrections),
         duplicatesRemoved |-> Len(dedupResult.duplicates),
         validRecords |-> validation.summary.validRecords,
         invalidRecords |-> validation.summary.invalidRecords,
         errorsByType |-> validation.summary.errorsByType]]

\* steps 2 and 3, on the records of step 1
CleanFromStep2(rawData, cleanedData, ageResult) ==
    LET dedupResult == removeDuplicateTransactions(ageResult.corrected)
    IN  ProcessingResult(rawData, cleanedData, ageResult, dedupResult,
                         validateDataset(dedupResult.unique))

\* step 1: rawData.map(cleanRecord).filter(record => record !== null)
CleanRecords(rawData) ==
    SelectSeq([i \in 1..Len(rawData) |-> cleanRecord(rawData[i])], LAMBDA record : record.ok)

cleanDataset(rawData) ==
    CleanFromStep2(rawData, CleanRecords(rawData), handleInconsistentAges(CleanRecords(rawData)))

RawOk ==
    [CustomerId |-> "1", TransactionID |-> "1", TransactionDate |-> "2024-01-01",
     Age |-> "30", TransactionAmount |-> "0.03", BalanceAfter |-> "0.03",
     AccountBalance |-> "0.00", TransactionType |-> "Deposit",
     AccountType |-> "Savings", BranchID |-> "B1", Anomaly |-> ""]

\* a valid record, a second spelling of it, a record that cleanRecord rejects,
\* records that fail one and two validation rules, a second age of customer 1
ReportRaws ==
    { RawOk,
      [RawOk EXCEPT !.TransactionAmount = "$0.03"],
      [RawOk EXCEPT !.CustomerId = ""],
      [RawOk EXCEPT !.CustomerId = "2", !.TransactionAmount = "abc"],
      [RawOk EXCEPT !.TransactionDate = "2024-01-02", !.TransactionType = "Withdrawal",
                    !.BalanceAfter = ""],
      [RawOk EXCEPT !.TransactionDate = "2024-01-02", !.Age = "31"] }

CleanDataset ==
    /\ callee = "cleanDataset"
    /\ Returns(cleanDataset(argument))

RECURSIVE SumOfCounts(_)
SumOfCounts(counts) ==
    IF DOMAIN counts = {} THEN 0
    ELSE LET r == CHOOSE x \in DOMAIN counts : TRUE
         IN  counts[r] + SumOfCounts([x \in DOMAIN counts \ {r} |-> counts[x]])

\* C24: the processing report of cleanDataset is consistent: totalRawRecords
\* is the number of input rows, successfullyCleaned <= totalRawRecords,
\* successfullyCleaned = duplicatesRemoved + validRecords + invalidRecords,
\* validRecords is the length of validData, and the counts of errorsByType
\* sum to the number of entries returned in invalidRecords.
C24_ReportConsistent ==
    Returned("cleanDataset") =>
        LET report == returnValue.processingReport
        IN  /\ report.totalRawRecords = Len(argument)
            /\ report.successfullyCleaned <= report.totalRawRecords
            /\ report.successfullyCleaned
                 = report.duplicatesRemoved + report.validRecords + report.invalidRecords
            /\ report.validRecords = Len(returnValue.validData)
            /\ SumOfCounts(report.errorsByType) = Len(returnValue.invalidRecords)

\* three rows: one rejected by cleanRecord, one valid, one that fails two
\* rules
C24_Witness ==
    /\ Returned("cleanDataset")
    /\ returnValue.processingReport.totalRawRecords = 3
    /\ returnValue.processingReport.successfullyCleaned = 2
    /\ returnValue.processingReport.validRecords = 1
    /\ returnValue.processingReport.invalidRecords = 1
    /\ Len(returnValue.invalidRecords) = 2

-----------------------------------------------------------------------------
(***************************************************************************)
(* parseAmount on strings of characters: the dashboard variant             *)
(* (components/AnomaliesTable.tsx) and the library variant                 *)
(* (lib/dataProcessing/aggregator.ts).  A string is a sequence of          *)
(* characters, a number is held in units of 10^-MaxChars.                  *)
(***************************************************************************)
MaxChars == 3

Chars == {"1", "2", ".", "-", "$", ",", "a", " "}
Digits == {"0", "1", "2", "3", "4", "5", "6", "7", "8", "9"}

RECURSIVE Pow10(_)
Pow10(n) == IF n = 0 THEN 1 ELSE 10 * Pow10(n - 1)

DigitOf(c) == CHOOSE d \in 0..9 : <<"0", "1", "2", "3", "4", "5", "6", "7", "8", "9">>[d + 1] = c

RECURSIVE DigitsValue(_)
DigitsValue(ds) ==
    IF ds = <<>> THEN 0
    ELSE 10 * DigitsValue(SubSeq(ds, 1, Len(ds) - 1)) + DigitOf(ds[Len(ds)])

\* String.prototype.trim
Trim(str) ==
    LET solid == {i \in 1..Len(str) : str[i] # " "}
    IN  IF solid = {} THEN <<>>
        ELSE SubSeq(str, CHOOSE i \in solid : \A j \in solid : i <= j,
                         CHOOSE i \in solid : \A j \in solid : j <= i)

\* str.replace(/[...]/g, '') for a class of characters
Without(str, class) == SelectSeq(str, LAMBDA c : c \notin class)

\* an optional minus sign, then digits with at most one point and at least
\* one digit: what Number and parseFloat read as a decimal number
IsDecimal(str) ==
    LET body == IF str # <<>> /\ str[1] = "-" THEN Tail(str) ELSE str
    IN  /\ \A i \in 1..Len(body) : body[i] \in Digits \cup {"."}
        /\ Cardinality({i \in 1..Len(body) : body[i] = "."}) <= 1
        /\ \E i \in 1..Len(body) : body[i] \in Digits

\* the number a decimal string denotes
DecimalValue(str) ==
    LET body == IF str[1] = "-" THEN Tail(str) ELSE str
        dots == {i \in 1..Len(body) : body[i] = "."}
        decimals == IF dots = {} THEN 0 ELSE Len(body) - (CHOOSE i \in dots : TRUE)
        magnitude == DigitsValue(Without(body, {"."})) * Pow10(MaxChars - decimals)
    IN  IF str[1] = "-" THEN -magnitude ELSE magnitude

\* Number(str) for a string of digits, points and minus signs
NumberOfChars(str) == IF IsDecimal(str) THEN DecimalValue(str) ELSE NaN

\* parseFloat(str): the longest leading decimal number
parseFloat(str) ==
    LET lens == {n \in 1..Len(str) : IsDecimal(SubSeq(str, 1, n))}
    IN  IF lens = {} THEN NaN
        ELSE DecimalValue(SubSeq(str, 1, CHOOSE n \in lens : \A m \in lens : m <= n))

\* /^(n\/a|na|null|undefined|-+)$/i
IsPlaceholder(str) ==
    \/ str \in {<<"n", "/", "a">>, <<"n", "a">>, <<"n", "u", "l", "l">>,
                <<"u", "n", "d", "e", "f", "i", "n", "e", "d">>}
    \/ str # <<>> /\ \A i \in 1..Len(str) : str[i] = "-"

\* parseAmount of the dashboard on a string
parseAmountOfChars(amount) ==
    IF Trim(amount) = <<>> THEN NaN
    ELSE IF IsPlaceholder(Trim(amount)) THEN NaN
    ELSE IF Without(Trim(amount), Chars \ (Digits \cup {".", "-"}))
               \in {<<>>, <<"-">>, <<".">>} THEN NaN
    ELSE NumberOfChars(Without(Trim(amount), Chars \ (Digits \cup {".", "-"})))

\* parseAmount of the library on a string
parseAmountOrZeroOfChars(amount) ==
    IF amount = <<>> \/ Trim(amount) = <<>> \/ amount = <<"n", "/", "a">> THEN 0
    ELSE IF parseFloat(Without(amount, {"$", ",", " "})) = NaN THEN 0
    ELSE parseFloat(Without(amount, {"$", ",", " "}))

ParseAmountDashboard ==
    /\ callee = "parseAmount (dashboard)"
    /\ Returns(parseAmountOfChars(argument))

ParseAmountLib ==
    /\ callee = "parseAmount (lib)"
    /\ Returns(parseAmountOrZeroOfChars(argument))

\* C25: neither parseAmount returns a partially parsed number: for a string
\* that is not a well-formed decimal number once currency symbols, thousands
\* separators and whitespace are removed, the dashboard variant returns NaN
\* and the library variant 0.
C25_NoPartialParse ==
    /\ Returned("parseAmount (dashboard)") =>
          (~IsDecimal(Without(argument, {"$", ",", " "})) => returnValue = NaN)
    /\ Returned("parseAmount (lib)") =>
          (~IsDecimal(Without(argument, {"$", ",", " "})) => returnValue = 0)

-----------------------------------------------------------------------------
(* segmentCustomers (src/lib/dataProcessing/aggregator.ts) *)
MaxSegData == 5

\* the share rounded down
CeilTenths_Floor(n, tenths) == (n * tenths) \div 10

\* Math.ceil(n * 0.2) and Math.ceil(n * 0.3): for n up to 2000 the double
\* product rounds up to the same integer as the exact one
CeilTenths(n, tenths) == (n * tenths + 9) \div 10

\* customerMap.get(customerId): the customer's transactions in data order
TransactionsOf(data, customerId) == SelectSeq(data, LAMBDA t : t.customerId = customerId)

\* one element of customerMetrics
MetricsOf(customerId, txns) ==
    [customerId |-> customerId,
     totalDeposits |-> SumAmounts(SelectSeq(txns, LAMBDA t : t.transactionType = "Deposit")),
     transactionCount |-> Len(txns),
     totalVolume |-> SumAmounts(txns)]

\* customerMetrics: one element per customer, in the order of first
\* appearance in data (Map insertion order)
customerMetrics(data) ==
    LET order == CustomerOrder(data)
    IN  [k \in 1..Len(order) |-> MetricsOf(order[k], TransactionsOf(data, order[k]))]

\* [...metrics].sort((a, b) => b[key] - a[key]): stable, largest first
RECURSIVE InsertByKey(_, _, _)
InsertByKey(sorted, x, key) ==
    IF sorted = <<>> THEN <<x>>
    ELSE IF x[key] > Head(sorted)[key] THEN <<x>> \o sorted
    ELSE <<Head(sorted)>> \o InsertByKey(Tail(sorted), x, key)

RECURSIVE SortByKey(_, _)
SortByKey(metrics, key) ==
    IF metrics = <<>> THEN <<>>
    ELSE InsertByKey(SortByKey(SubSeq(metrics, 1, Len(metrics) - 1), key),
                     metrics[Len(metrics)], key)

\* one element of the returned array; the averages are left out
SegmentOf(segmentName, members) ==
    [segmentName |-> segmentName,
     customerIds |-> [k \in 1..Len(members) |-> members[k].customerId],
     totalVolume |-> SumAmounts([k \in 1..Len(members) |->
                                    [transactionAmount |-> members[k].totalVolume]])]

SegmentsOf(metrics) ==
    << SegmentOf("High-Value Customers",
                 SubSeq(SortByKey(metrics, "totalDeposits"), 1, CeilTenths(Len(metrics), 2))),
       SegmentOf("Active Customers",
                 SubSeq(SortByKey(metrics, "transactionCount"), 1, CeilTenths(Len(metrics), 3))) >>

segmentCustomers(data) == SegmentsOf(customerMetrics(data))

\* what a record is apart from its customer
SegKinds == { [transactionType |-> "Deposit", transactionAmount |-> 6],
              [transactionType |-> "Withdrawal", transactionAmount |-> 6] }

\* the datasets of at most n records; customers are numbered downwards from 9
\* in the order of their first record
RECURSIVE SegDatasets(_)
SegDatasets(n) ==
    IF n = 0 THEN {<<>>}
    ELSE LET shorter == SegDatasets(n - 1)
         IN  shorter \cup
             UNION { { Append(d, [customerId |-> c, transactionType |-> k.transactionType,
                                  transactionAmount |-> k.transactionAmount])
                         : c \in {d[j].customerId : j \in 1..Len(d)}
                                   \cup {9 - Cardinality({d[j].customerId : j \in 1..Len(d)})},
                           k \in SegKinds }
                     : d \in {q \in shorter : Len(q) = n - 1} }

SegmentCustomers ==
    /\ callee = "segmentCustomers"
    /\ Returns(segmentCustomers(argument))

\* total deposit volume of a customer
DepositsOf(c) ==
    SumAmounts(SelectSeq(argument, LAMBDA t : t.customerId = c /\ t.transactionType = "Deposit"))

\* position of the first record of customer c
FirstSeen(c) == CHOOSE i \in 1..Len(argument) :
                    /\ argument[i].customerId = c
                    /\ \A j \in 1..(i - 1) : argument[j].customerId # c

\* C21: with N distinct customers the High-Value segment has ceil(0.2 N)
\* members and the Active segment ceil(0.3 N); every High-Value member has
\* at least the total deposits of every non-member, and of customers with
\* equal total deposits the one first met in the data is selected first.
C21_SegmentSizesAndRanking ==
    Returned("segmentCustomers") =>
        LET all == {argument[i].customerId : i \in 1..Len(argument)}
            N == Cardinality(all)
            high == returnValue[1].customerIds
            members == {high[k] : k \in 1..Len(high)}
        IN  /\ 5 * (Len(high) - 1) < N /\ N <= 5 * Len(high)
            /\ 10 * (Len(returnValue[2].customerIds) - 1) < 3 * N
            /\ 3 * N <= 10 * Len(returnValue[2].customerIds)
            /\ Cardinality(members) = Len(high)
            /\ members \subseteq all
            /\ \A m \in members, x \in all \ members :
                  \/ DepositsOf(m) > DepositsOf(x)
                  \/ DepositsOf(m) = DepositsOf(x) /\ FirstSeen(m) < FirstSeen(x)
            /\ \A a, b \in 1..Len(high) :
                  a < b =>
                    \/ DepositsOf(high[a]) > DepositsOf(high[b])
                    \/ /\ DepositsOf(high[a]) = DepositsOf(high[b])
                       /\ FirstSeen(high[a]) < FirstSeen(high[b])

\* four customers, the second and the third tied on the largest deposits:
\* the second is the High-Value customer, and two customers are Active
C21_Witness ==
    /\ Returned("segmentCustomers")
    /\ Cardinality({argument[i].customerId : i \in 1..Len(argument)}) = 4
    /\ returnValue[1].customerIds = <<8>>
    /\ DepositsOf(8) = DepositsOf(7)
    /\ DepositsOf(9) < DepositsOf(8)
    /\ Len(returnValue[2].customerIds) = 2

-----------------------------------------------------------------------------
(***************************************************************************)
(* analyzeBranchPerformance (src/lib/dataProcessing/aggregator.ts).        *)
(* Amounts are whole dollars here, dates are days before `now`, and the    *)
(* scores are exact fractions [n, d] in lowest terms.  The argument is     *)
(* held run-length encoded: a batch stands for `count` consecutive records *)
(* of one branch, amount and date, dealt to `customers` customers in turn. *)
(***************************************************************************)
MaxBatches == 3

RECURSIVE GCD(_, _)
GCD(a, b) == IF b = 0 THEN a ELSE GCD(b, a % b)

\* n / d in lowest terms, d > 0
Rat(n, d) == LET g == GCD(Abs(n), d) IN [n |-> n \div g, d |-> d \div g]

RatAdd(a, b) ==
    LET m == (a.d \div GCD(a.d, b.d)) * b.d
    IN  Rat(a.n * (m \div a.d) + b.n * (m \div b.d), m)

RatLess(a, b) ==
    LET m == (a.d \div GCD(a.d, b.d)) * b.d
    IN  a.n * (m \div a.d) < b.n * (m \div b.d)

\* Math.min and Math.max
RatMin(a, b) == IF RatLess(b, a) THEN b ELSE a
RatMax(a, b) == IF RatLess(a, b) THEN b ELSE a

\* the records that the batches stand for
RecordsOf(batches) ==
    LET upto(k) == IF k = 0 THEN 0
                   ELSE IF k = 1 THEN batches[1].count
                   ELSE IF k = 2 THEN batches[1].count + batches[2].count
                   ELSE IF k = 3 THEN batches[1].count + batches[2].count + batches[3].count
                   ELSE batches[1].count + batches[2].count + batches[3].count
                          + batches[4].count
        batchAt(i) == CHOOSE k \in 1..Len(batches) : upto(k - 1) < i /\ i <= upto(k)
    IN  [i \in 1..upto(Len(batches)) |->
            [branchId |-> batches[batchAt(i)].branchId,
             customerId |-> ((i - upto(batchAt(i) - 1) - 1) % batches[batchAt(i)].customers) + 1,
             transactionAmount |-> batches[batchAt(i)].amount,
             daysAgo |-> batches[batchAt(i)].daysAgo]] \o <<>>

\* reduce((sum, t) => sum + t.transactionAmount, 0) over txns[lo..hi]
RECURSIVE VolumeOf(_, _, _)
VolumeOf(txns, lo, hi) ==
    IF lo > hi THEN 0
    ELSE IF lo = hi THEN txns[lo].transactionAmount
    ELSE VolumeOf(txns, lo, (lo + hi) \div 2) + VolumeOf(txns, (lo + hi) \div 2 + 1, hi)

TotalOf(txns) == VolumeOf(txns, 1, Len(txns))

\* a growth rate that divides by the previous volume whatever it is
GrowthRate_Unguarded(recentVolume, previousVolume) ==
    IF previousVolume = 0 THEN Rat(100 * recentVolume, 1)
    ELSE Rat((recentVolume - previousVolume) * 100, previousVolume)

GrowthRate(recentVolume, previousVolume) ==
    IF previousVolume > 0 THEN Rat((recentVolume - previousVolume) * 100, previousVolume)
    ELSE Rat(0, 1)

\* the entry pushed to performances
PerformanceOf(branchId, totalVolume, transactionCount, uniqueCustomers, growthRate) ==
    [branchId |-> branchId,
     totalVolume |-> totalVolume,
     transactionCount |-> transactionCount,
     customerCount |-> uniqueCustomers,
     growthRate |-> growthRate,
     volumeScore |-> RatMin(Rat(totalVolume * 20, 1000000), Rat(30, 1)),
     customerScore |-> RatMin(Rat(uniqueCustomers * 20, 100), Rat(30, 1)),
     growthScore |-> RatMin(Rat(RatMax(growthRate, Rat(0, 1)).n,
                                RatMax(growthRate, Rat(0, 1)).d * 2), Rat(20, 1)),
     activityScore |-> RatMin(Rat(transactionCount * 20, 1000), Rat(20, 1))]

WithScore(p) ==
    [branchId |-> p.branchId, totalVolume |-> p.totalVolume,
     transactionCount |-> p.transactionCount, customerCount |-> p.customerCount,
     growthRate |-> p.growthRate,
     performanceScore |-> RatAdd(RatAdd(p.volumeScore, p.customerScore),
                                 RatAdd(p.growthScore, p.activityScore))]

\* the branchMap.forEach callback
PerformanceOfBranch(branchId, txns) ==
    WithScore(PerformanceOf(
        branchId, TotalOf(txns), Len(txns),
        Cardinality({txns[i].customerId : i \in 1..Len(txns)}),
        GrowthRate(TotalOf(SelectSeq(txns, LAMBDA t : t.daysAgo <= 90)),
                   TotalOf(SelectSeq(txns, LAMBDA t : t.daysAgo <= 180 /\ t.daysAgo > 90)))))

\* branchMap.get(t.branchId)
BranchPerformanceOf(branchId, data) ==
    PerformanceOfBranch(branchId, SelectSeq(data, LAMBDA t : t.branchId = branchId))

\* the branches in the order of their first record (Map insertion order)
BranchOrder(data) ==
    LET firstAt(b) == CHOOSE i \in 1..Len(data) :
                         data[i].branchId = b /\ \A j \in 1..(i - 1) : data[j].branchId # b
        firsts == {firstAt(b) : b \in {data[i].branchId : i \in 1..Len(data)}}
    IN  [k \in 1..Cardinality(firsts) |->
            data[CHOOSE i \in firsts : Cardinality({j \in firsts : j < i}) = k - 1].branchId]

\* performances.sort((a, b) => b.performanceScore - a.performanceScore)
RECURSIVE SortByPerformance(_)
SortByPerformance(ps) ==
    IF ps = <<>> THEN <<>>
    ELSE LET sorted == SortByPerformance(SubSeq(ps, 1, Len(ps) - 1))
             x == ps[Len(ps)]
             ahead == Cardinality({k \in 1..Len(sorted) :
                                     ~RatLess(sorted[k].performanceScore, x.performanceScore)})
         IN  SubSeq(sorted, 1, ahead) \o <<x>> \o SubSeq(sorted, ahead + 1, Len(sorted))

PerformancesOf(order, data) ==
    SortByPerformance([k \in 1..Len(order) |-> BranchPerformanceOf(order[k], data)])

analyzeBranchPerformance(data) == PerformancesOf(BranchOrder(data), data)

\* 1000 records of 2000 dollars dealt to 150 customers long ago, single
\* records of the previous and of the recent window
Batches ==
    [branchId : {"B1", "B2"}, count : {1000}, customers : {150}, amount : {2000}, daysAgo : {400}]
    \cup [branchId : {"B1", "B2"}, count : {1}, customers : {1}, amount : {1}, daysAgo : {100}]
    \cup [branchId : {"B1", "B2"}, count : {1}, customers : {1}, amount : {2}, daysAgo : {10}]

AnalyzeBranchPerformance ==
    /\ callee = "analyzeBranchPerformance"
    /\ Returns(analyzeBranchPerformance(RecordsOf(argument)))

\* the volume of the records of branch b in the 90 days before the last 90
PreviousVolume(b) ==
    LET S == {k \in 1..Len(argument) :
                 argument[k].branchId = b /\ argument[k].daysAgo > 90 /\ argument[k].daysAgo <= 180}
    IN  IF S = {} THEN 0
        ELSE TotalOf([k \in 1..Len(argument) |->
                        [transactionAmount |->
                            IF k \in S THEN argument[k].count * argument[k].amount ELSE 0]])

\* C22: for records with amounts >= 0 every entry of analyzeBranchPerformance
\* has 0 <= performanceScore <= 100; growthRate is 0 whenever the branch has
\* no volume in the preceding 90-day window; the entries come in
\* non-increasing performanceScore order, one per branchId.
C22_ScoreWithinBounds ==
    Returned("analyzeBranchPerformance") =>
        /\ \A k \in 1..Len(returnValue) :
              /\ ~RatLess(returnValue[k].performanceScore, Rat(0, 1))
              /\ ~RatLess(Rat(100, 1), returnValue[k].performanceScore)
              /\ PreviousVolume(returnValue[k].branchId) = 0
                    => returnValue[k].growthRate = Rat(0, 1)
        /\ \A k \in 1..(Len(returnValue) - 1) :
              ~RatLess(returnValue[k].performanceScore, returnValue[k + 1].performanceScore)
        /\ \A j, k \in 1..Len(returnValue) :
              returnValue[j].branchId = returnValue[k].branchId => j = k
        /\ {returnValue[k].branchId : k \in 1..Len(returnValue)}
              = {argument[k].branchId : k \in 1..Len(argument)}

\* a branch that reaches all four caps, listed ahead of a branch without
\* volume in the preceding window
C22_Witness ==
    /\ Returned("analyzeBranchPerformance")
    /\ \E k \in 1..Len(returnValue) :
          /\ returnValue[k].performanceScore = Rat(100, 1)
          /\ PreviousVolume(returnValue[k].branchId) > 0

-----------------------------------------------------------------------------
(***************************************************************************)
(* calculateCustomerLTV (banking-dashboard/src/utils/analytics.ts).        *)
(* Amounts and balances are cents and the revenue is counted in 1/2000 of  *)
(* a cent, in which the default rates (0.1 %, 0.1 %, 0.05 % and 10 bps)    *)
(* are the whole numbers 2, 2, 1 and 2.  A date is a month and a day.      *)
(***************************************************************************)
MaxLtvData == 3

\* revenue += amt * fee...; a type without a fee adds nothing
FeeOf(tx) ==
    IF tx.transactionType \in {"Deposit", "Withdrawal"} THEN 2 * Abs(tx.transactionAmount)
    ELSE IF tx.transactionType = "Transfer" THEN Abs(tx.transactionAmount)
    ELSE 0

RECURSIVE FeesOf(_)
FeesOf(custTx) ==
    IF custTx = <<>> THEN 0 ELSE FeeOf(Head(custTx)) + FeesOf(Tail(custTx))

\* the loop that fills byMonth: a record with a snapshot overwrites the
\* entry of its month
RECURSIVE ByMonthOf(_)
ByMonthOf(custTx) ==
    IF custTx = <<>> THEN <<>>
    ELSE LET tx == custTx[Len(custTx)]
             before == ByMonthOf(SubSeq(custTx, 1, Len(custTx) - 1))
         IN  IF tx.accountBalanceAfter # Undefined
             THEN MapSet(before, tx.transactionDate.month, tx.accountBalanceAfter)
             ELSE before

\* revenue += Math.max(0, bal) * monthlyMarginRate over the months in keys
RECURSIVE MarginOf(_, _)
MarginOf(byMonth, keys) ==
    IF keys = {} THEN 0
    ELSE LET k == CHOOSE x \in keys : TRUE
         IN  2 * (IF byMonth[k] > 0 THEN byMonth[k] ELSE 0) + MarginOf(byMonth, keys \ {k})

\* Number(revenue.toFixed(2)) of a revenue that is not negative
ToFixed2(revenue) == (revenue + 1000) \div 2000

LTVOf(custTx) ==
    ToFixed2(FeesOf(custTx) + MarginOf(ByMonthOf(custTx), DOMAIN ByMonthOf(custTx)))

calculateCustomerLTV(customerId, data) ==
    LTVOf(SelectSeq(data, LAMBDA d : d.customerId = customerId))

LTVRec(customerId, type, amount, month, day, balance) ==
    [customerId |-> customerId, transactionType |-> type, transactionAmount |-> amount,
     transactionDate |-> [month |-> month, day |-> day], accountBalanceAfter |-> balance]

LTVRecs ==
    { LTVRec(1, "Deposit", 5000, 1, 5, 100000),
      LTVRec(1, "Withdrawal", -5000, 1, 20, 300000),
      LTVRec(1, "Payment", 9000, 1, 20, -50000),
      LTVRec(1, "Transfer", 4000, 2, 1, Undefined),
      LTVRec(1, "Deposit", 1000, 2, 3, 70000),
      LTVRec(2, "Deposit", 7000, 1, 9, 200000) }

CalculateCustomerLTV ==
    /\ callee = "calculateCustomerLTV"
    /\ Returns(calculateCustomerLTV(argument[1], argument[2]))

\* the records of the customer of the call that carry a snapshot
SnapshotsOfCall ==
    SelectSeq(argument[2], LAMBDA d : d.customerId = argument[1]
                                      /\ d.accountBalanceAfter # Undefined)

\* the snapshots of the chronologically last records of month m that have
\* one (more than one when several such records share the last day)
LastSnapshots(m) ==
    LET inMonth == {k \in 1..Len(SnapshotsOfCall) :
                       SnapshotsOfCall[k].transactionDate.month = m}
    IN  {SnapshotsOfCall[k].accountBalanceAfter :
            k \in {j \in inMonth : \A i \in inMonth :
                      SnapshotsOfCall[i].transactionDate.day
                         <= SnapshotsOfCall[j].transactionDate.day}}

\* the results that take, for every month with a snapshot, a snapshot of a
\* chronologically last record, add the fees of the customer's own
\* Deposit, Withdrawal and Transfer records, and round to cents
ExpectedLTVs ==
    LET months == {SnapshotsOfCall[k].transactionDate.month : k \in 1..Len(SnapshotsOfCall)}
        own == SelectSeq(argument[2], LAMBDA d : d.customerId = argument[1])
        balances == {SnapshotsOfCall[k].accountBalanceAfter : k \in 1..Len(SnapshotsOfCall)}
    IN  {ToFixed2(FeesOf(own) + MarginOf(byMonth, months)) :
            byMonth \in {f \in [months -> balances] : \A m \in months : f[m] \in LastSnapshots(m)}}

\* C23: calculateCustomerLTV counts each month with a snapshot once, with
\* the snapshot of the customer's chronologically last record of the month
\* that has one, floored at 0, whatever the order of the records; charges
\* fees on Deposit, Withdrawal and Transfer amounts only; does not depend
\* on other customers' records; and is never negative.
C23_LastSnapshotOfEachMonth ==
    Returned("calculateCustomerLTV") =>
        /\ returnValue \in ExpectedLTVs
        /\ returnValue = calculateCustomerLTV(argument[1],
              SelectSeq(argument[2], LAMBDA d : d.customerId = argument[1]))
        /\ returnValue >= 0

-----------------------------------------------------------------------------
(***************************************************************************)
(* detectAnomalousTransactions of the dashboard                            *)
(* (banking-dashboard/src/utils/analytics.ts): the z-score of the absolute *)
(* amount among the customer's absolute amounts.  With n amounts of sum s  *)
(* and sum of squares q, mean = s / n and variance = (n q - s^2) / (n m),  *)
(* m = max(1, n - 1); the comparisons are made on these whole numbers.     *)
(* The argument is held as batches of equal records.                       *)
(***************************************************************************)
MaxZBatches == 2

RECURSIVE SumOf(_)
SumOf(arr) == IF arr = <<>> THEN 0 ELSE Head(arr) + SumOf(Tail(arr))

\* amountsByCust.get(cid): the absolute amounts of the customer, in data order
AmountsByCust(data, cid) ==
    LET own == SelectSeq(data, LAMBDA tx : tx.customerId = cid)
    IN  [k \in 1..Len(own) |-> Abs(own[k].transactionAmount)]

\* a variance over all n amounts
VarianceDivisor_Population(n) == n

\* Math.max(1, arr.length - 1)
VarianceDivisor(n) == IF n - 1 > 1 THEN n - 1 ELSE 1

\* n^2 * m * variance, which is 0 exactly when std is
ScaledVariance(arr) ==
    Len(arr) * SumOf([k \in 1..Len(arr) |-> arr[k] * arr[k]]) - SumOf(arr) * SumOf(arr)

\* the filter callback: stats.std !== 0 and (val - mean) / std >= zThreshold
ZScoreAtLeast(val, arr, zThreshold) ==
    /\ ScaledVariance(arr) # 0
    /\ Len(arr) * val - SumOf(arr) >= 0
    /\ (Len(arr) * val - SumOf(arr)) * (Len(arr) * val - SumOf(arr)) * VarianceDivisor(Len(arr))
          >= zThreshold * zThreshold * Len(arr) * ScaledVariance(arr)

detectAnomalousByZScore(data, zThreshold) ==
    SelectSeq(data, LAMBDA tx :
        ZScoreAtLeast(Abs(tx.transactionAmount), AmountsByCust(data, tx.customerId), zThreshold))

\* 1, 9 or 10 records of one customer with the same amount
ZBatches == [customerId : {1, 2}, count : {1, 9, 10}, transactionAmount : {0, -3}]

RECURSIVE ZRecordsOf(_)
ZRecordsOf(batches) ==
    IF batches = <<>> THEN <<>>
    ELSE [k \in 1..Head(batches).count |->
             [customerId |-> Head(batches).customerId,
              transactionAmount |-> Head(batches).transactionAmount]]
         \o ZRecordsOf(Tail(batches))

\* AnomaliesTable calls it with the threshold 3
DetectAnomalousByZScore ==
    /\ callee = "detectAnomalousTransactions (dashboard)"
    /\ Returns(detectAnomalousByZScore(ZRecordsOf(argument), 3))

\* the number of records of customer c in the data of the call
RecordCount(c) == Len(SelectSeq(ZRecordsOf(argument), LAMBDA tx : tx.customerId = c))

\* sub is what is left of full after removing some of its elements
RECURSIVE IsSubSequence(_, _)
IsSubSequence(sub, full) ==
    IF sub = <<>> THEN TRUE
    ELSE IF full = <<>> THEN FALSE
    ELSE IF Head(sub) = Head(full) THEN IsSubSequence(Tail(sub), Tail(full))
    ELSE IsSubSequence(sub, Tail(full))

\* C29: with the threshold 3 no transaction of a customer with fewer than
\* 11 records is flagged; none of a customer whose amounts are all equal
\* or who has a single record; the output is a sub-sequence of the input.
C29_NeverFlagsSmallHistories ==
    Returned("detectAnomalousTransactions (dashboard)") =>
        /\ \A k \in 1..Len(returnValue) :
              /\ RecordCount(returnValue[k].customerId) >= 11
              /\ \E tx \in {ZRecordsOf(argument)[j] : j \in 1..Len(ZRecordsOf(argument))} :
                    /\ tx.customerId = returnValue[k].customerId
                    /\ tx.transactionAmount # returnValue[k].transactionAmount
        /\ IsSubSequence(returnValue, ZRecordsOf(argument))

\* ten records of a customer, nine of 0 and one of -3, none of them flagged
C29_Witness ==
    /\ Returned("detectAnomalousTransactions (dashboard)")
    /\ \E c \in {1, 2} :
          /\ RecordCount(c) = 10
          /\ \E j \in 1..Len(argument) :
                argument[j] = [customerId |-> c, count |-> 1, transactionAmount |-> -3]
          /\ \E j \in 1..Len(argument) :
                argument[j] = [customerId |-> c, count |-> 9, transactionAmount |-> 0]
          /\ \A k \in 1..Len(returnValue) : returnValue[k].customerId # c

-----------------------------------------------------------------------------
(* One call of one of these functions *)

\* the single calls of the other specifications are not in progress
SingleCallsIdle ==
    /\ raw = <<>>
    /\ cleanedRecord = <<>>
    /\ transactions = <<>>
    /\ reconciled = <<>>
    /\ dataset = <<>>
    /\ anomalies = <<>>

InitCalls ==
    /\ call = "ready"
    /\ \/ callee = "cleanDataset" /\ argument \in SeqsUpTo(ReportRaws, MaxData)
       \/ /\ callee \in {"parseAmount (dashboard)", "parseAmount (lib)"}
          /\ argument \in SeqsUpTo(Chars, MaxChars)
       \/ /\ callee = "segmentCustomers"
          /\ argument \in SegDatasets(MaxSegData)
       \/ /\ callee = "calculateCustomerLTV"
          /\ argument \in {1, 2} \X SeqsUpTo(LTVRecs, MaxLtvData)
       \/ /\ callee = "detectAnomalousTransactions (dashboard)"
          /\ argument \in SeqsUpTo(ZBatches, MaxZBatches)
       \/ /\ callee = "analyzeBranchPerformance"
          /\ argument \in SeqsUpTo(Batches, MaxBatches)
    /\ returnValue = <<>>
    /\ SingleCallsIdle
    /\ LoaderIdle
    /\ DashIdle
    /\ LibIdle

NextCalls ==
    \/ CleanDataset
    \/ ParseAmountDashboard
    \/ ParseAmountLib
    \/ SegmentCustomers
    \/ AnalyzeBranchPerformance
    \/ CalculateCustomerLTV
    \/ DetectAnomalousByZScore

SpecCalls == InitCalls /\ [][NextCalls]_vars

-----------------------------------------------------------------------------
(***************************************************************************)
(* FileLoader (banking-dashboard/src/components/FileLoader.tsx) with       *)
(* parseCsv (utils/csv.ts) and App.onData.  A handleFile call runs up to   *)
(* its await in one step; the promise of parseCsv settles later, in any    *)
(* order among the outstanding calls, and the rest of the handler runs     *)
(* then in one step.                                                       *)
(***************************************************************************)
MaxSelections == 3

Files == {"a.csv", "b.csv", "bad.csv"}

\* results.data of Papa.parse for the file
RowsOfFile(f) ==
    IF f = "a.csv"
    THEN << Row("1", D1, "Deposit", "0.03", "0.03", ABSENT, ABSENT, ABSENT) >>
    ELSE << Row("1", D1, "Withdrawal", "0.03", "", "30", ABSENT, "B1"),
            Row("1", D1, "Withdrawal", "0.03", "", "17", ABSENT, "B2") >>

\* Papa.parse calls its error callback for the file
Unreadable(f) == f = "bad.csv"

loaderRest == <<call, raw, cleanedRecord, transactions, reconciled, dataset, anomalies,
                fnVars, dashVars, libVars>>

\* handleFile up to `await parseCsv(f)`, for a change event that carries f;
\* the input fires one only when its selection changes
HandleFile(f) ==
    /\ Len(handlers) < MaxSelections
    /\ f # fileName
    /\ loading' = TRUE
    /\ fileName' = f
    /\ handlers' = Append(handlers, [file |-> f, pc |-> "await"])
    /\ UNCHANGED <<appData, appErrors, loaderRest>>

\* App.onData
OnData(cleanRecords, errs) ==
    /\ appData' = cleanRecords
    /\ appErrors' = errs

\* the promise of call i resolves: the try block after the await, then finally
ParseComplete(i) ==
    /\ handlers[i].pc = "await"
    /\ ~Unreadable(handlers[i].file)
    /\ OnData(validateAndClean(RowsOfFile(handlers[i].file)).clean,
              validateAndClean(RowsOfFile(handlers[i].file)).errors)
    /\ loading' = FALSE
    /\ handlers' = [handlers EXCEPT ![i].pc = "done"]
    /\ UNCHANGED <<fileName, loaderRest>>

\* the promise of call i rejects: the catch block, then finally
ParseError(i) ==
    /\ handlers[i].pc = "await"
    /\ Unreadable(handlers[i].file)
    /\ OnData(<<>>, <<Err(-1, "Failed to parse CSV", <<>>)>>)
    /\ loading' = FALSE
    /\ handlers' = [handlers EXCEPT ![i].pc = "done"]
    /\ UNCHANGED <<fileName, loaderRest>>

InitLoader ==
    /\ CallIdle
    /\ DashIdle
    /\ LibIdle

NextLoader ==
    \/ \E f \in Files : HandleFile(f)
    \/ \E i \in 1..Len(handlers) : ParseComplete(i)
    \/ \E i \in 1..Len(handlers) : ParseError(i)

SpecLoader == InitLoader /\ [][NextLoader]_vars

\* the handleFile calls whose parse has not finished
Outstanding == {i \in 1..Len(handlers) : handlers[i].pc = "await"}

\* what a handleFile call for the file passes to onData
DeliveryOf(f) ==
    IF Unreadable(f) THEN [clean |-> <<>>, errors |-> <<Err(-1, "Failed to parse CSV", <<>>)>>]
    ELSE validateAndClean(RowsOfFile(f))

\* C30: once no parse is outstanding, App holds the result of the file
\* selected last, whose name is displayed, whichever parse finished first;
\* loading is on as long as a parse is outstanding; a failed parse delivers
\* no records and a single error of rowIndex -1 and clears loading.
C30_LatestSelectionDelivered ==
    /\ [](handlers # <<>> /\ Outstanding = {} =>
            /\ fileName = handlers[Len(handlers)].file
            /\ appData = DeliveryOf(fileName).clean
            /\ appErrors = DeliveryOf(fileName).errors)
    /\ [](Outstanding # {} => loading)
    /\ [][\A i \in 1..Len(handlers) : ParseError(i) =>
            /\ appData' = <<>>
            /\ Len(appErrors') = 1
            /\ appErrors'[1].rowIndex = -1
            /\ loading' = FALSE]_vars

=============================================================================
